---------------------------- MODULE Spec2Model ----------------------------
(***************************************************************************)
(* muxaudio: growable byte buffer, LEB128 varint codec, frame codec and    *)
(* the PCM / A-law / mu-law codec adapters, as state machines.             *)
(*                                                                         *)
(* The specifications share the variables:                                 *)
(*   SpecLeb    mux_leb128_encode / mux_leb128_decode on 64-bit values     *)
(*   SpecFrame  mux_leb128_write_frame / mux_leb128_read_frame on buffers  *)
(*   Spec       encoder -> caller -> decoder with the codec adapters       *)
(*   SpecLife   construction and release of encoders and decoders          *)
(*   SpecUse    facade calls on an A-law / mu-law encoder and decoder      *)
(*   SpecAmr    the AMR-NB encoder adapter and its error record            *)
(*   SpecMem    buffer writes while realloc may fail                       *)
(*   SpecBuf    one buffer under writes, reads, clears and frame reads     *)
(*   SpecSamp   one sample through an A-law / mu-law compander and back    *)
(*   SpecThr    two threads constructing one decoder each                  *)
(*   SpecCtor   repeated construction on the same encoder storage          *)
(*                                                                         *)
(* Conventions: a byte is 0..255; a uint64_t is four 16-bit limbs, so that *)
(* shifts drop bits exactly as the C type does and no model integer        *)
(* exceeds 31 bits; destination pointers passed to read operations are non-NULL  *)
(* (every adapter passes a live scratch buffer); the host is little-endian *)
(* where an int16_t is copied to or from bytes.                            *)
(***************************************************************************)
EXTENDS Integers, Sequences, FiniteSets, TLC

(***************************************************************************)
(* Return codes (include/mux.h)                                            *)
(***************************************************************************)
MUX_OK == 0
MUX_ERROR_NOMEM == -2
MUX_ERROR_INVAL == -3
MUX_ERROR_AGAIN == -4

MUX_STREAM_AUDIO == 0
MUX_STREAM_SIDE_CHANNEL == 1

(***************************************************************************)
(* Bounds of the model                                                     *)
(***************************************************************************)
MaxFrames == 2
MaxEncodes == 2
ArgPeriod == 2
MaxFailAt == 8
MaxCalls == 2
MaxHeap == 3
MaxOps == 3
MaxInput == 3
MaxFed == 6

(***************************************************************************)
(* Small arithmetic helpers                                                *)
(***************************************************************************)
\* 2^n for n = 0..30
Pow2Table ==
    <<1, 2, 4, 8, 16, 32, 64, 128, 256, 512, 1024, 2048, 4096, 8192, 16384, 32768, 65536, 131072, 262144,
      524288, 1048576, 2097152, 4194304, 8388608, 16777216, 33554432, 67108864, 134217728, 268435456, 536870912, 1073741824>>

Pow2(n) == Pow2Table[n + 1]

Min(a, b) == IF a < b THEN a ELSE b

IsPrefix(s, t) == Len(s) <= Len(t) /\ SubSeq(t, 1, Len(s)) = s

(***************************************************************************)
(* uint64_t as four 16-bit limbs, least significant first                  *)
(***************************************************************************)
LimbBase == Pow2(16)

U64Zero == <<0, 0, 0, 0>>

\* conversion of a model-sized size_t / int (below 2^31) to uint64_t
ToU64(n) == <<n % LimbBase, n \div LimbBase, 0, 0>>

U64IsZero(v) == v = U64Zero

\* value & 0x7f
U64Low7(v) == v[1] % 128

\* value >> n for n in 1..15
U64Shr(v, n) ==
    LET lo == Pow2(n)
        hi == Pow2(16 - n)
    IN <<(v[1] \div lo) + (v[2] % lo) * hi,
         (v[2] \div lo) + (v[3] % lo) * hi,
         (v[3] \div lo) + (v[4] % lo) * hi,
         v[4] \div lo>>

\* a | b on 16-bit limbs, bit by bit (w is the weight of the bit)
OrBit(a, b, w) ==
    IF (a \div w) % 2 = 1 \/ (b \div w) % 2 = 1 THEN w ELSE 0

BitOr16(a, b) ==
    OrBit(a, b, 1) +
    OrBit(a, b, 2) +
    OrBit(a, b, 4) +
    OrBit(a, b, 8) +
    OrBit(a, b, 16) +
    OrBit(a, b, 32) +
    OrBit(a, b, 64) +
    OrBit(a, b, 128) +
    OrBit(a, b, 256) +
    OrBit(a, b, 512) +
    OrBit(a, b, 1024) +
    OrBit(a, b, 2048) +
    OrBit(a, b, 4096) +
    OrBit(a, b, 8192) +
    OrBit(a, b, 16384) +
    OrBit(a, b, 32768)

\* result | ((uint64_t)(b7) << shift) for shift in 0..63; bits shifted
\* past bit 63 are lost
U64OrShl(result, b7, shift) ==
    LET k == shift \div 16
        t == b7 * Pow2(shift % 16)
        part == [i \in 1..4 |->
                    IF i = k + 1 THEN t % LimbBase
                    ELSE IF i = k + 2 THEN t \div LimbBase
                    ELSE 0]
    IN [i \in 1..4 |-> IF part[i] = 0 THEN result[i]
                       ELSE BitOr16(result[i], part[i])]

\* Sizes above this exceed every buffer the model can hold.
HugeSize == Pow2(30)

\* a uint64_t read back as a size_t: exact below 2^30, saturated above
U64ToSize(v) ==
    IF v[4] # 0 \/ v[3] # 0 \/ v[2] >= 16384
    THEN HugeSize
    ELSE v[1] + LimbBase * v[2]

(***************************************************************************)
(* mux_leb128_encode: returns the byte count (or a negative error) and     *)
(* the bytes stored in output[0..count-1]                                  *)
(***************************************************************************)
RECURSIVE LebEncodeLoop(_, _, _)
LebEncodeLoop(value, out, output_size) ==
    LET low == U64Low7(value)
        rest == U64Shr(value, 7)
        byte == IF ~U64IsZero(rest) THEN low + 128 ELSE low
    IN IF Len(out) >= output_size
       THEN [ret |-> MUX_ERROR_INVAL, bytes |-> out]
       ELSE IF ~U64IsZero(rest)
            THEN LebEncodeLoop(rest, Append(out, byte), output_size)
            ELSE [ret |-> Len(out) + 1, bytes |-> Append(out, byte)]

mux_leb128_encode(value, output_size) == LebEncodeLoop(value, << >>, output_size)

(***************************************************************************)
(* mux_leb128_decode: ret, and on MUX_OK the value and bytes_read          *)
(***************************************************************************)
\* the overflow test of the decode loop
LebShiftOverflow(shift) == shift >= 64

RECURSIVE LebDecodeLoop(_, _, _, _)
LebDecodeLoop(input, result, shift, count) ==
    IF count >= Len(input)
    THEN [ret |-> MUX_ERROR_AGAIN, value |-> U64Zero, bytes_read |-> 0]
    ELSE LET byte == input[count + 1]
             r2 == U64OrShl(result, byte % 128, shift)
             s2 == shift + 7
         IN IF LebShiftOverflow(s2)
            THEN [ret |-> MUX_ERROR_INVAL, value |-> U64Zero, bytes_read |-> 0]
            ELSE IF byte >= 128
                 THEN LebDecodeLoop(input, r2, s2, count + 1)
                 ELSE [ret |-> MUX_OK, value |-> r2, bytes_read |-> count + 1]

mux_leb128_decode(input) == LebDecodeLoop(input, U64Zero, 0, 0)


(***************************************************************************)
(* struct mux_buffer: data holds the size valid bytes, read_pos of them    *)
(* already consumed; capacity is the allocated length.                     *)
(***************************************************************************)
mux_buffer_init(initial_capacity) ==
    [data |-> << >>, size |-> 0, capacity |-> initial_capacity, read_pos |-> 0]

mux_buffer_available(buf) == buf.size - buf.read_pos

\* the unread bytes, in write order
Unread(buf) == SubSeq(buf.data, buf.read_pos + 1, buf.size)

\* a buffer that grows to the needed size only
GrownCapacity_Needed(capacity, needed) == needed

\* "Grow by 1.5x or to needed size, whichever is larger"
GrownCapacity(capacity, needed) ==
    IF capacity + (capacity \div 2) < needed
    THEN needed
    ELSE capacity + (capacity \div 2)

mux_buffer_ensure_capacity(buf, needed) ==
    IF buf.capacity >= needed
    THEN buf
    ELSE [buf EXCEPT !.capacity = GrownCapacity(buf.capacity, needed)]

mux_buffer_write(buf, bytes) ==
    IF Len(bytes) = 0
    THEN buf
    ELSE LET b2 == mux_buffer_ensure_capacity(buf, buf.size + Len(bytes))
         IN [b2 EXCEPT !.data = SubSeq(buf.data, 1, buf.size) \o bytes,
                       !.size = buf.size + Len(bytes)]

\* a buffer that keeps its positions when it is drained
ResetIfDrained_Never(buf) == buf

\* "Reset buffer if fully read"
ResetIfDrained(buf) ==
    IF buf.read_pos = buf.size
    THEN [buf EXCEPT !.data = << >>, !.size = 0, !.read_pos = 0]
    ELSE buf

\* a reader that hands out one byte per call
ReadCount_One(size, available) == 1

\* if (size > available) size = available
ReadCount(size, available) == IF size > available THEN available ELSE size

\* a reader that leaves the read position where it was
Advanced_Not(read_pos, n) == read_pos

\* buf->read_pos += size
Advanced(read_pos, n) == read_pos + n

mux_buffer_read(buf, size) ==
    LET available == buf.size - buf.read_pos
        n == ReadCount(size, available)
    IN IF available = 0
       THEN [ret |-> MUX_ERROR_AGAIN, buf |-> buf, bytes |-> << >>]
       ELSE [ret |-> MUX_OK,
             buf |-> ResetIfDrained([buf EXCEPT !.read_pos = Advanced(@, n)]),
             bytes |-> SubSeq(buf.data, buf.read_pos + 1, buf.read_pos + n)]

\* buf->size = 0; buf->read_pos = 0
mux_buffer_clear(buf) ==
    [buf EXCEPT !.data = << >>, !.size = 0, !.read_pos = 0]

(***************************************************************************)
(* mux_leb128_write_frame                                                  *)
(***************************************************************************)
\* a header that adds the stream bit without shifting the length
FrameHeaderValue_NoShift(payload_size, stream_type) ==
    ToU64(payload_size + (stream_type % 2))

\* length_with_stream = (payload_size << 1) | (stream_type & 1)
FrameHeaderValue(payload_size, stream_type) ==
    ToU64(payload_size * 2 + (stream_type % 2))

mux_leb128_write_frame(output, payload, stream_type, num_streams) ==
    IF num_streams = 1
    THEN [ret |-> MUX_OK, buf |-> mux_buffer_write(output, payload)]
    ELSE LET hdr == mux_leb128_encode(FrameHeaderValue(Len(payload), stream_type), 10)
         IN IF hdr.ret < 0
            THEN [ret |-> hdr.ret, buf |-> output]
            ELSE [ret |-> MUX_OK,
                  buf |-> mux_buffer_write(mux_buffer_write(output, hdr.bytes),
                                           payload)]

(***************************************************************************)
(* mux_leb128_read_frame.  The result carries the buffer after the call,   *)
(* the payload copied out, and the out-parameters; written tells whether   *)
(* *payload_size and *stream_type were stored by the call.                 *)
(***************************************************************************)
NoFrame(ret, buf) ==
    [ret |-> ret, buf |-> buf, payload |-> << >>,
     payload_size |-> 0, stream_type |-> 0, written |-> FALSE]

\* "Check if we have the full frame"
FrameIncomplete(available, leb128_bytes, actual_payload_size) ==
    available < leb128_bytes + actual_payload_size

\* a reader that never checks the destination capacity
FrameTooLarge_Never(payload_capacity, actual_payload_size) == FALSE

\* "Check output buffer size" (payload is non-NULL)
FrameTooLarge(payload_capacity, actual_payload_size) ==
    payload_capacity < actual_payload_size

\* a reader that tags passthrough bytes as side data
PassthroughStream_Side == MUX_STREAM_SIDE_CHANNEL

\* value of *stream_type in passthrough mode
PassthroughStream == MUX_STREAM_AUDIO

ReadFramePassthrough(input, payload_capacity) ==
    LET available == input.size - input.read_pos
        actual == IF available < payload_capacity THEN available
                  ELSE payload_capacity
    IN IF available = 0
       THEN NoFrame(MUX_ERROR_AGAIN, input)
       ELSE [ret |-> MUX_OK,
             buf |-> ResetIfDrained([input EXCEPT !.read_pos = input.read_pos + actual]),
             payload |-> SubSeq(input.data, input.read_pos + 1,
                                input.read_pos + actual),
             payload_size |-> actual,
             stream_type |-> PassthroughStream,
             written |-> TRUE]

\* a reader that steps over the payload but not the header
FrameAdvance_NoHeader(read_pos, leb128_bytes, actual_payload_size) ==
    read_pos + actual_payload_size

\* read position after a frame has been taken out
FrameAdvance(read_pos, leb128_bytes, actual_payload_size) ==
    read_pos + leb128_bytes + actual_payload_size

\* a reader that consumes the header before it knows the frame is complete
FrameKeep_SkipHeader(read_pos, leb128_bytes) == read_pos + leb128_bytes

\* read position when the call returns without a frame
FrameKeep(read_pos, leb128_bytes) == read_pos

\* the rest of the call once the header has been decoded: leb128_bytes
\* header bytes, stream bit and payload length
ReadFrameBody(input, payload_capacity, leb128_bytes, stream, actual) ==
    IF FrameIncomplete(input.size - input.read_pos, leb128_bytes, actual)
    THEN NoFrame(MUX_ERROR_AGAIN,
                 [input EXCEPT !.read_pos = FrameKeep(input.read_pos, leb128_bytes)])
    ELSE IF FrameTooLarge(payload_capacity, actual)
    THEN [ret |-> MUX_ERROR_INVAL,
          buf |-> [input EXCEPT !.read_pos = FrameKeep(input.read_pos, leb128_bytes)],
          payload |-> << >>,
          payload_size |-> actual, stream_type |-> stream, written |-> TRUE]
    ELSE [ret |-> MUX_OK,
          buf |-> ResetIfDrained(
                     [input EXCEPT !.read_pos =
                         FrameAdvance(input.read_pos, leb128_bytes, actual)]),
          payload |-> SubSeq(input.data, input.read_pos + leb128_bytes + 1,
                             input.read_pos + leb128_bytes + actual),
          payload_size |-> actual, stream_type |-> stream, written |-> TRUE]

\* hdr is the result of mux_leb128_decode on the unread bytes
ReadFrameHeader(input, payload_capacity, hdr) ==
    IF hdr.ret # MUX_OK
    THEN NoFrame(hdr.ret, input)
    ELSE ReadFrameBody(input, payload_capacity, hdr.bytes_read,
                       hdr.value[1] % 2, U64ToSize(U64Shr(hdr.value, 1)))

ReadFrameMux(input, payload_capacity) ==
    ReadFrameHeader(input, payload_capacity, mux_leb128_decode(Unread(input)))

mux_leb128_read_frame(input, payload_capacity, num_streams) ==
    IF num_streams = 1
    THEN ReadFramePassthrough(input, payload_capacity)
    ELSE ReadFrameMux(input, payload_capacity)


(***************************************************************************)
(* G.711 companding (codec_alaw.c, codec_mulaw.c).  Samples are int16_t;   *)
(* >> on a negative value is the arithmetic shift, and the conversion of   *)
(* an out-of-range int to int16_t wraps modulo 2^16.                       *)
(***************************************************************************)
MULAW_BIAS == 132
MULAW_CLIP == 32635
ALAW_CLIP == 32635

Wrap16(n) == ((n + Pow2(15)) % Pow2(16)) - Pow2(15)

\* one int16_t read from / stored to two bytes
SampleOfBytes(lo, hi) == Wrap16(lo + 256 * hi)
BytesOfSample(s) == LET u == s % Pow2(16) IN <<u % 256, u \div 256>>

\* a ^ b on bytes, bit by bit
XorBit(a, b, w) ==
    IF ((a \div w) % 2) # ((b \div w) % 2) THEN w ELSE 0

BitXor8(a, b) ==
    XorBit(a, b, 1) +
    XorBit(a, b, 2) +
    XorBit(a, b, 4) +
    XorBit(a, b, 8) +
    XorBit(a, b, 16) +
    XorBit(a, b, 32) +
    XorBit(a, b, 64) +
    XorBit(a, b, 128)

\* ~b on a byte
BitNot8(b) == 255 - b

\* sign = (pcm >> 8) & 0x80
SampleSign(pcm) == IF pcm < 0 THEN 128 ELSE 0

\* if (sign) pcm = -pcm; if (pcm > clip) pcm = clip;
SampleMagnitude(pcm, clip) ==
    LET neg == IF SampleSign(pcm) # 0 THEN Wrap16(0 - pcm) ELSE pcm
    IN IF neg > clip THEN clip ELSE neg

\* for (exponent = 1; exponent < 8; exponent++) if (sample < (256 << exponent)) break;
AlawSegment(sample) ==
    LET S == {e \in 1..7 : sample < 256 * Pow2(e)}
    IN IF S = {} THEN 8 ELSE CHOOSE e \in S : \A f \in S : e <= f

alaw_encode_sample(pcm) ==
    LET sign == SampleSign(pcm)
        sample == SampleMagnitude(pcm, ALAW_CLIP)
        exponent == IF sample < 256 THEN 0 ELSE AlawSegment(sample)
        mantissa == IF sample < 256 THEN sample \div 16
                    ELSE (sample \div Pow2(exponent + 3)) % 16
        alaw == BitOr16(BitOr16(sign, exponent * 16), mantissa % 256) % 256
    IN BitXor8(alaw, 85)

alaw_decode_sample(alaw) ==
    LET a == BitXor8(alaw, 85)
        sign == IF a >= 128 THEN 128 ELSE 0
        exponent == (a \div 16) % 8
        mantissa == a % 16
        sample == IF exponent = 0 THEN mantissa * 16 + 8
                  ELSE (mantissa * 16 + 264) * Pow2(exponent - 1)
    IN IF sign # 0 THEN 0 - sample ELSE sample

\* for (exponent = 7; exponent > 0; exponent--) if (sample & (1 << (exponent + 7))) break;
MulawSegment(sample) ==
    LET S == {e \in 1..7 : (sample \div Pow2(e + 7)) % 2 = 1}
    IN IF S = {} THEN 0 ELSE CHOOSE e \in S : \A f \in S : e >= f

mulaw_encode_sample(pcm) ==
    LET sign == SampleSign(pcm)
        sample == SampleMagnitude(pcm, MULAW_CLIP) + MULAW_BIAS
        exponent == MulawSegment(sample)
        mantissa == (sample \div Pow2(exponent + 3)) % 16
    IN BitNot8(BitOr16(BitOr16(sign, exponent * 16), mantissa))

mulaw_decode_sample(mulaw) ==
    LET m == BitNot8(mulaw)
        sign == IF m >= 128 THEN 128 ELSE 0
        exponent == (m \div 16) % 8
        mantissa == m % 16
        sample == (mantissa * 8 + MULAW_BIAS) * Pow2(exponent) - MULAW_BIAS
    IN IF sign # 0 THEN 0 - sample ELSE sample

\* the compander of a codec; PCM stores samples as they are
EncodeSample(codec, pcm) ==
    IF codec = "alaw" THEN alaw_encode_sample(pcm) ELSE mulaw_encode_sample(pcm)

DecodeSample(codec, byte) ==
    IF codec = "alaw" THEN alaw_decode_sample(byte) ELSE mulaw_decode_sample(byte)

\* input bytes viewed as int16_t samples, companded one byte per sample
CompandAll(codec, input, num_samples) ==
    [i \in 1..num_samples |->
        EncodeSample(codec, SampleOfBytes(input[2 * i - 1], input[2 * i]))]

\* a decoder that stores one byte per sample
ExpandAll_OneByte(codec, frame) ==
    [j \in 1..Len(frame) |-> BytesOfSample(DecodeSample(codec, frame[j]))[1]]

\* companded bytes expanded to int16_t samples, two bytes per sample
ExpandAll(codec, frame) ==
    [j \in 1..(2 * Len(frame)) |->
        BytesOfSample(DecodeSample(codec, frame[(j + 1) \div 2]))[2 - (j % 2)]]

(***************************************************************************)
(* Encoder and decoder instances (core.c) and the adapters' operations.    *)
(* enc = [num_streams, output]; dec = [num_streams, input_buf,             *)
(* audio_output, side_output], input_buf being the adapter's codec_data.   *)
(***************************************************************************)
OutputBufInit == 4096
AudioBufInit == 4096
SideBufInit == 1024
InputBufInit == 4096
FrameBufCapacity == 8192

mux_encoder_init(num_streams) ==
    [num_streams |-> num_streams, output |-> mux_buffer_init(OutputBufInit)]

mux_decoder_init(num_streams) ==
    [num_streams |-> num_streams,
     input_buf |-> mux_buffer_init(InputBufInit),
     audio_output |-> mux_buffer_init(AudioBufInit),
     side_output |-> mux_buffer_init(SideBufInit)]

\* pcm_encoder_encode; args[1] is the value write_frame receives as
\* num_streams
pcm_encoder_encode(e, input, stream_type, args) ==
    IF Len(input) = 0
    THEN [ret |-> MUX_OK, enc |-> e, consumed |-> 0]
    ELSE LET r == mux_leb128_write_frame(e.output, input, stream_type, args[1])
         IN IF r.ret # MUX_OK
            THEN [ret |-> r.ret, enc |-> e, consumed |-> 0]
            ELSE [ret |-> MUX_OK, enc |-> [e EXCEPT !.output = r.buf],
                  consumed |-> Len(input)]

\* an encoder that reports the bytes it produced
AudioConsumed_Produced(num_samples) == num_samples

\* *input_consumed = num_samples * sizeof(int16_t)
AudioConsumed(num_samples) == num_samples * 2

\* alaw_encoder_encode / mulaw_encoder_encode
g711_encoder_encode(codec, e, input, stream_type, args) ==
    LET num_samples == Len(input) \div 2
        r == IF stream_type = MUX_STREAM_AUDIO
             THEN mux_leb128_write_frame(e.output,
                                         CompandAll(codec, input, num_samples),
                                         stream_type, args[1])
             ELSE mux_leb128_write_frame(e.output, input, stream_type, args[1])
    IN IF Len(input) = 0
       THEN [ret |-> MUX_OK, enc |-> e, consumed |-> 0]
       ELSE IF stream_type = MUX_STREAM_AUDIO /\ num_samples = 0
       THEN [ret |-> MUX_OK, enc |-> e, consumed |-> 0]
       ELSE IF r.ret # MUX_OK
       THEN [ret |-> r.ret, enc |-> e, consumed |-> 0]
       ELSE [ret |-> MUX_OK, enc |-> [e EXCEPT !.output = r.buf],
             consumed |-> IF stream_type = MUX_STREAM_AUDIO
                          THEN AudioConsumed(num_samples) ELSE Len(input)]

encoder_encode(codec, e, input, stream_type, args) ==
    IF codec = "pcm"
    THEN pcm_encoder_encode(e, input, stream_type, args)
    ELSE g711_encoder_encode(codec, e, input, stream_type, args)

\* pcm_encoder_read / alaw_encoder_read / mulaw_encoder_read
encoder_read(e, output_size) ==
    LET r == mux_buffer_read(e.output, output_size)
    IN [ret |-> r.ret, enc |-> [e EXCEPT !.output = r.buf], bytes |-> r.bytes]

\* a decoder that treats every frame as audio
IsAudioFrame_Always(stream_type) == TRUE

\* if (stream_type == MUX_STREAM_AUDIO)
IsAudioFrame(stream_type) == stream_type = MUX_STREAM_AUDIO

\* the bytes a frame adds to the audio output
AudioBytes(codec, frame) ==
    IF codec = "pcm" THEN frame ELSE ExpandAll(codec, frame)

\* the value the i-th read_frame call of one decoder_decode receives
NumStreamsArg(args, i) == args[((i - 1) % Len(args)) + 1]

\* a frame r has been read: "Write to appropriate output buffer"
StoreFrame(codec, d, r) ==
    IF IsAudioFrame(r.stream_type)
    THEN [d EXCEPT !.input_buf = r.buf,
                   !.audio_output = mux_buffer_write(@, AudioBytes(codec, r.payload))]
    ELSE [d EXCEPT !.input_buf = r.buf,
                   !.side_output = mux_buffer_write(@, r.payload)]

\* "Frame too large, reallocate buffer" and "Try again"
RetryFrame(r1, args, k) ==
    IF r1.ret = MUX_ERROR_INVAL /\ r1.written /\ r1.payload_size > FrameBufCapacity
    THEN [r |-> mux_leb128_read_frame(r1.buf, r1.payload_size,
                                      NumStreamsArg(args, k + 1)),
          calls |-> 2]
    ELSE [r |-> r1, calls |-> 1]

\* frame_size is read ("ret == MUX_ERROR_INVAL && frame_size >
\* frame_buf_capacity") before any read_frame call has stored it: the first
\* read_frame of the call returned InvalidArgument from the header decode
FrameSizeUndefined(k, r1) == k = 1 /\ r1.ret = MUX_ERROR_INVAL /\ ~r1.written

\* what the comparison on the indeterminate frame_size can lead to: it is
\* not larger (the error is returned), or it is larger and realloc to that
\* size fails (OutOfMemory); when that realloc succeeds the retry fails on
\* the same header and the error is returned as in the first case
FrameSizeOutcomes == {"not_larger", "realloc_fails"}

\* the while (1) loop of pcm_decoder_decode / alaw_decoder_decode /
\* mulaw_decoder_decode, one iteration per DecodeLoop; k counts the
\* read_frame calls
RECURSIVE DecodeLoop(_, _, _, _, _)
DecodeStep(codec, d, args, k, r1, t, undef) ==
    IF r1.ret = MUX_ERROR_AGAIN
    THEN [ret |-> MUX_OK, dec |-> [d EXCEPT !.input_buf = r1.buf]]
    ELSE IF FrameSizeUndefined(k, r1) /\ undef = "realloc_fails"
    THEN [ret |-> MUX_ERROR_NOMEM, dec |-> [d EXCEPT !.input_buf = r1.buf]]
    ELSE IF t.r.ret # MUX_OK
    THEN [ret |-> t.r.ret, dec |-> [d EXCEPT !.input_buf = t.r.buf]]
    ELSE DecodeLoop(codec, StoreFrame(codec, d, t.r), args, k + t.calls, undef)

DecodeFrame(codec, d, args, k, r1, undef) ==
    DecodeStep(codec, d, args, k, r1, RetryFrame(r1, args, k), undef)

DecodeLoop(codec, d, args, k, undef) ==
    DecodeFrame(codec, d, args, k,
                mux_leb128_read_frame(d.input_buf, FrameBufCapacity,
                                      NumStreamsArg(args, k)),
                undef)

\* consumed = input_size; *input_consumed = consumed before "return MUX_OK"
\* (an error return stores nothing: consumed is 0 then)
DecodeOutcome(r, input_size) ==
    [ret |-> r.ret, dec |-> r.dec,
     consumed |-> IF r.ret = MUX_OK THEN input_size ELSE 0]

decoder_decode(codec, d, input, args, undef) ==
    DecodeOutcome(DecodeLoop(codec,
                             [d EXCEPT !.input_buf = mux_buffer_write(@, input)],
                             args, 1, undef),
                  Len(input))

\* a reader that never serves the audio buffer
AudioServed_Never(ret) == FALSE

\* "Try audio buffer first": if (ret == MUX_OK)
AudioServed(ret) == ret = MUX_OK

\* pcm_decoder_read / alaw_decoder_read / mulaw_decoder_read
decoder_read(d, output_size) ==
    LET a == mux_buffer_read(d.audio_output, output_size)
        s == mux_buffer_read(d.side_output, output_size)
    IN IF AudioServed(a.ret)
       THEN [ret |-> MUX_OK, dec |-> [d EXCEPT !.audio_output = a.buf],
             bytes |-> a.bytes, stream_type |-> MUX_STREAM_AUDIO]
       ELSE IF s.ret = MUX_OK
       THEN [ret |-> MUX_OK, dec |-> [d EXCEPT !.side_output = s.buf],
             bytes |-> s.bytes, stream_type |-> MUX_STREAM_SIDE_CHANNEL]
       ELSE [ret |-> MUX_ERROR_AGAIN, dec |-> d,
             bytes |-> << >>, stream_type |-> MUX_STREAM_AUDIO]


(***************************************************************************)
(* Lifecycle: allocations, codec registry, construction and destruction    *)
(* (src/core.c, src/buffer.c and the adapters' init / deinit operations)   *)
(*                                                                         *)
(* A pointer is a block number, NULL is 0.  The machine m carries the set  *)
(* of live blocks (heap), the events of the running operation (trace) and  *)
(* the fallible calls made so far (step); the fail_at-th fallible call     *)
(* (malloc, calloc or a native library's open) of an operation fails.      *)
(***************************************************************************)
MUX_ERROR_NOCODEC == -5
MUX_ERROR_ENCODE == -7
MUX_ERROR_DECODE == -8
MUX_ERROR_FORMAT == -9
MUX_ERROR_INIT == -10

\* enum mux_codec_type in the order of codec_info_table, which
\* mux_codec_to_name indexes by codec identifier
MUX_CODEC_PCM == 0
MUX_CODEC_MP3 == 4
MUX_CODEC_ALAW == 6
MUX_CODEC_MULAW == 7
MUX_CODEC_AMR == 8
MUX_CODEC_AMR_WB == 9
MUX_CODEC_MAX == 10

AMR_SAMPLE_RATE == 8000
AMR_WB_SAMPLE_RATE == 16000
AMR_FRAME_SAMPLES == 160
AMR_MAX_FRAME_SIZE == 32
AMR_MODE_1220 == 7

NULL == 0
NullOps == "NULL"

\* the build configurations considered: the codecs without a native library
\* are always present; MP3 may be built with only one direction
Builds ==
    { {},
      {"HAVE_AMR"},
      {"HAVE_MP3", "HAVE_MP3_ENCODE"},
      {"HAVE_MP3", "HAVE_MP3_DECODE"} }

codec_ops_table(b, type) ==
    CASE type = MUX_CODEC_PCM -> "pcm"
      [] type = MUX_CODEC_ALAW -> "alaw"
      [] type = MUX_CODEC_MULAW -> "mulaw"
      [] type = MUX_CODEC_MP3 -> IF "HAVE_MP3" \in b THEN "mp3" ELSE NullOps
      [] type = MUX_CODEC_AMR -> IF "HAVE_AMR" \in b THEN "amr" ELSE NullOps
      [] type = MUX_CODEC_AMR_WB ->
            IF "HAVE_AMR_WB" \in b THEN "amr_wb" ELSE NullOps
      [] OTHER -> NullOps

mux_get_codec_ops(b, type) ==
    IF type < 0 \/ type >= MUX_CODEC_MAX THEN NullOps
    ELSE codec_ops_table(b, type)

\* whether the operation table ops has a non-NULL entry for op
HasOp(b, ops, op) ==
    CASE ops = NullOps -> FALSE
      [] ops = "mp3" ->
            IF op \in {"encoder_init", "encoder_deinit"}
            THEN "HAVE_MP3_ENCODE" \in b
            ELSE "HAVE_MP3_DECODE" \in b
      [] OTHER -> TRUE

Event(ev, ptr, op) == [ev |-> ev, ptr |-> ptr, op |-> op]

Machine(heap_, fail_at) ==
    [heap |-> heap_, trace |-> << >>, step |-> 0, fail_at |-> fail_at]

Log(m, e) == [m EXCEPT !.trace = Append(@, e)]

\* the lowest block number not in use
NewBlock(h) ==
    CHOOSE p \in 1..(Cardinality(h) + 1) :
        p \notin h /\ \A q \in 1..(p - 1) : q \in h

\* malloc, calloc or a native open: the result is NULL when the call fails
Acquire(m, ev) ==
    IF m.step + 1 = m.fail_at
    THEN [m |-> [m EXCEPT !.step = @ + 1], ptr |-> NULL]
    ELSE [m |-> [m EXCEPT !.step = @ + 1,
                          !.heap = @ \cup {NewBlock(m.heap)},
                          !.trace = Append(@, Event(ev, NewBlock(m.heap), ""))],
          ptr |-> NewBlock(m.heap)]

malloc(m) == Acquire(m, "alloc")

\* free(NULL) does nothing; freeing a block that is not live is recorded
free(m, p) ==
    IF p = NULL THEN m
    ELSE IF p \in m.heap
    THEN [m EXCEPT !.heap = @ \ {p}, !.trace = Append(@, Event("free", p, ""))]
    ELSE Log(m, Event("badfree", p, ""))

\* a fallible library call that acquires nothing (mpg123_init,
\* mpg123_open_feed, lame_init_params)
NativeStep(m) ==
    [m |-> [m EXCEPT !.step = @ + 1], ok |-> m.step + 1 # m.fail_at]

\* mux_buffer_init / mux_buffer_deinit on the data pointer of a buffer
life_buffer_init(m, initial_capacity) ==
    IF initial_capacity > 0
    THEN LET a == malloc(m)
         IN [m |-> a.m, data |-> a.ptr,
             ret |-> IF a.ptr = NULL THEN MUX_ERROR_NOMEM ELSE MUX_OK]
    ELSE [m |-> m, data |-> NULL, ret |-> MUX_OK]

\* the buffer is zeroed after its storage is released
BufferAfterDeinit(data) == NULL

life_buffer_deinit_NoFree(m, data) ==
    [m |-> m, data |-> BufferAfterDeinit(data)]
life_buffer_deinit(m, data) ==
    [m |-> free(m, data), data |-> BufferAfterDeinit(data)]

\* mux_buffer_ensure_capacity when the buffer has to grow: realloc moves the
\* storage to a new block, or fails and leaves the buffer as it was
life_buffer_grow(m, data) ==
    IF m.step + 1 = m.fail_at
    THEN [m |-> [m EXCEPT !.step = @ + 1], data |-> data,
          ret |-> MUX_ERROR_NOMEM]
    ELSE LET a == malloc(free(m, data))
         IN [m |-> a.m, data |-> a.ptr, ret |-> MUX_OK]

\* struct mux_encoder / struct mux_decoder after memset(0); data holds the
\* fields of the block codec_data points to
ZeroData == [native |-> NULL, input_buf |-> NULL]

ZeroEncoder ==
    [codec_type |-> 0, ops |-> NullOps, num_streams |-> 0,
     output |-> NULL, error |-> MUX_OK,
     codec_data |-> NULL, data |-> ZeroData]

ZeroDecoder ==
    [codec_type |-> 0, ops |-> NullOps, num_streams |-> 0,
     audio_output |-> NULL, side_output |-> NULL, error |-> MUX_OK,
     codec_data |-> NULL, data |-> ZeroData]

\* mux_encoder_set_error / mux_decoder_set_error: the code of the record
set_error(inst, code) == [inst EXCEPT !.error = code]

InitResult(m, ret, inst) == [m |-> m, ret |-> ret, inst |-> inst]

(* ---- encoder init operations ---- *)
\* pcm_encoder_init, alaw_encoder_init, mulaw_encoder_init
g711_encoder_init(m, e) ==
    InitResult(m, MUX_OK, [e EXCEPT !.codec_data = NULL])

\* an adapter init that fails after it allocated its state block releases
\* the block before it returns
ReleaseState_Leak(m, data) == m
ReleaseState(m, data) == free(m, data)

\* Encoder_Interface_init
amr_encoder_open(m, e, data, n) ==
    IF n.ptr = NULL
    THEN InitResult(ReleaseState(n.m, data), MUX_ERROR_INIT,
                    set_error(e, MUX_ERROR_INIT))
    ELSE InitResult(n.m, MUX_OK,
                    [e EXCEPT !.codec_data = data,
                              !.data = [native |-> n.ptr, input_buf |-> NULL]])

amr_encoder_alloc(m, e, a) ==
    IF a.ptr = NULL THEN InitResult(a.m, MUX_ERROR_NOMEM, e)
    ELSE amr_encoder_open(a.m, e, a.ptr, Acquire(a.m, "open"))

\* a check of the sample rate alone
AmrFormatInvalid_RateOnly(sample_rate, num_channels, required_rate) ==
    sample_rate # required_rate

\* sample_rate != AMR_SAMPLE_RATE, num_channels != 1
AmrFormatInvalid(sample_rate, num_channels, required_rate) ==
    sample_rate # required_rate \/ num_channels # 1

amr_encoder_init(m, e, sample_rate, num_channels) ==
    IF AmrFormatInvalid(sample_rate, num_channels, AMR_SAMPLE_RATE)
    THEN InitResult(m, MUX_ERROR_INVAL, set_error(e, MUX_ERROR_INVAL))
    ELSE amr_encoder_alloc(m, e, malloc(m))

\* amr_wb_encoder_init: without HAVE_AMR_WB_ENCODE the function only
\* reports MUX_ERROR_NOCODEC; with it: the checks, calloc, E_IF_init
amr_wb_encoder_init(b, m, e, sample_rate, num_channels) ==
    IF "HAVE_AMR_WB_ENCODE" \notin b
    THEN InitResult(m, MUX_ERROR_NOCODEC, set_error(e, MUX_ERROR_NOCODEC))
    ELSE IF AmrFormatInvalid(sample_rate, num_channels, AMR_WB_SAMPLE_RATE)
    THEN InitResult(m, MUX_ERROR_INVAL, set_error(e, MUX_ERROR_INVAL))
    ELSE amr_encoder_alloc(m, e, malloc(m))

\* lame_init_params
mp3_encoder_params(m, e, data, gfp, s) ==
    IF ~s.ok
    THEN InitResult(free(free(s.m, gfp), data), MUX_ERROR_INIT,
                    set_error(e, MUX_ERROR_INIT))
    ELSE InitResult(s.m, MUX_OK,
                    [e EXCEPT !.codec_data = data,
                              !.data = [native |-> gfp, input_buf |-> NULL]])

\* lame_init
mp3_encoder_open(m, e, data, n) ==
    IF n.ptr = NULL
    THEN InitResult(free(n.m, data), MUX_ERROR_INIT,
                    set_error(e, MUX_ERROR_INIT))
    ELSE mp3_encoder_params(n.m, e, data, n.ptr, NativeStep(n.m))

mp3_encoder_alloc(m, e, a) ==
    IF a.ptr = NULL
    THEN InitResult(a.m, MUX_ERROR_NOMEM, set_error(e, MUX_ERROR_NOMEM))
    ELSE mp3_encoder_open(a.m, e, a.ptr, Acquire(a.m, "open"))

mp3_encoder_init(m, e) == mp3_encoder_alloc(m, e, malloc(m))

(* ---- encoder deinit operations ---- *)
\* the adapter clears codec_data after it released the block
StateAfterDeinit(codec_data) == NULL

\* pcm_encoder_deinit, alaw_encoder_deinit, mulaw_encoder_deinit
g711_encoder_deinit(m, e) == [m |-> m, inst |-> e]

\* amr_encoder_deinit, mp3_encoder_deinit
native_encoder_deinit(m, e) ==
    IF e.codec_data = NULL THEN [m |-> m, inst |-> e]
    ELSE [m |-> free(free(m, e.data.native), e.codec_data),
          inst |-> [e EXCEPT !.codec_data = StateAfterDeinit(@)]]

(* ---- decoder init operations ---- *)
\* pcm_decoder_init, alaw_decoder_init, mulaw_decoder_init
g711_decoder_buffer(d, data, r) ==
    IF r.ret # MUX_OK
    THEN InitResult(free(r.m, data), MUX_ERROR_NOMEM, d)
    ELSE InitResult(r.m, MUX_OK,
                    [d EXCEPT !.codec_data = data,
                              !.data = [native |-> NULL, input_buf |-> r.data]])

g711_decoder_alloc(d, a) ==
    IF a.ptr = NULL THEN InitResult(a.m, MUX_ERROR_NOMEM, d)
    ELSE g711_decoder_buffer(d, a.ptr, life_buffer_init(a.m, InputBufInit))

g711_decoder_init(m, d) == g711_decoder_alloc(d, malloc(m))

\* Decoder_Interface_init
amr_decoder_open(d, data, input_buf, n) ==
    IF n.ptr = NULL
    THEN InitResult(ReleaseState(life_buffer_deinit(n.m, input_buf).m, data),
                    MUX_ERROR_INIT, set_error(d, MUX_ERROR_INIT))
    ELSE InitResult(n.m, MUX_OK,
                    [d EXCEPT !.codec_data = data,
                              !.data = [native |-> n.ptr,
                                        input_buf |-> input_buf]])

amr_decoder_buffer(d, data, r) ==
    IF r.ret # MUX_OK
    THEN InitResult(ReleaseState(r.m, data), MUX_ERROR_NOMEM, d)
    ELSE amr_decoder_open(d, data, r.data, Acquire(r.m, "open"))

amr_decoder_alloc(d, a) ==
    IF a.ptr = NULL THEN InitResult(a.m, MUX_ERROR_NOMEM, d)
    ELSE amr_decoder_buffer(d, a.ptr, life_buffer_init(a.m, InputBufInit))

amr_decoder_init(m, d) == amr_decoder_alloc(d, malloc(m))

\* mp3_decoder_init after mpg123_init: calloc, mpg123_new, mpg123_open_feed,
\* mux_buffer_init
mp3_decoder_buffer(d, data, mh, r) ==
    IF r.ret # MUX_OK
    THEN InitResult(free(free(r.m, mh), data), MUX_ERROR_NOMEM,
                    set_error(d, MUX_ERROR_NOMEM))
    ELSE InitResult(r.m, MUX_OK,
                    [d EXCEPT !.codec_data = data,
                              !.data = [native |-> mh, input_buf |-> r.data]])

mp3_decoder_feed(d, data, mh, s) ==
    IF ~s.ok
    THEN InitResult(free(free(s.m, mh), data), MUX_ERROR_INIT,
                    set_error(d, MUX_ERROR_INIT))
    ELSE mp3_decoder_buffer(d, data, mh, life_buffer_init(s.m, InputBufInit))

mp3_decoder_open(d, data, n) ==
    IF n.ptr = NULL
    THEN InitResult(free(n.m, data), MUX_ERROR_INIT,
                    set_error(d, MUX_ERROR_INIT))
    ELSE mp3_decoder_feed(d, data, n.ptr, NativeStep(n.m))

mp3_decoder_alloc(d, a) ==
    IF a.ptr = NULL
    THEN InitResult(a.m, MUX_ERROR_NOMEM, set_error(d, MUX_ERROR_NOMEM))
    ELSE mp3_decoder_open(d, a.ptr, Acquire(a.m, "open"))

\* inited is the function-static mpg123_inited (mpg123_init runs once per
\* process); the result carries its new value
mp3_decoder_library(d, s) ==
    IF ~s.ok
    THEN [r |-> InitResult(s.m, MUX_ERROR_INIT, set_error(d, MUX_ERROR_INIT)),
          inited |-> FALSE]
    ELSE [r |-> mp3_decoder_alloc(d, malloc(s.m)), inited |-> TRUE]

mp3_decoder_init(m, d, inited) ==
    IF inited
    THEN [r |-> mp3_decoder_alloc(d, malloc(m)), inited |-> TRUE]
    ELSE mp3_decoder_library(d, NativeStep(m))

(* ---- decoder deinit operations ---- *)
\* pcm_decoder_deinit, alaw_decoder_deinit, mulaw_decoder_deinit,
\* amr_decoder_deinit, mp3_decoder_deinit: the native handle (if any), the
\* input buffer, the state block
adapter_decoder_deinit(m, d) ==
    IF d.codec_data = NULL THEN [m |-> m, inst |-> d]
    ELSE [m |-> free(life_buffer_deinit(free(m, d.data.native),
                                        d.data.input_buf).m,
                     d.codec_data),
          inst |-> [d EXCEPT !.codec_data = StateAfterDeinit(@)]]

(* ---- the facade (src/core.c) ---- *)
\* a call through an entry of the operation table
op_call(b, m, ops, op) ==
    IF HasOp(b, ops, op) THEN Log(m, Event("call", NULL, op))
    ELSE Log(m, Event("nullcall", NULL, op))

\* num_streams != 1 && num_streams != 2
StreamCountInvalid_Never(num_streams) == FALSE
StreamCountInvalid(num_streams) == num_streams # 1 /\ num_streams # 2

\* !ops || !ops->encoder_init, !ops || !ops->decoder_init
CodecMissing_Never(b, ops, op) == FALSE
CodecMissing(b, ops, op) == ops = NullOps \/ ~HasOp(b, ops, op)

\* ops->encoder_init(enc, sample_rate, num_channels, params, num_params)
encoder_init_op(b, m, e, sample_rate, num_channels) ==
    CASE ~HasOp(b, e.ops, "encoder_init") -> InitResult(m, MUX_ERROR_INIT, e)
      [] e.ops = "amr" -> amr_encoder_init(m, e, sample_rate, num_channels)
      [] e.ops = "amr_wb" ->
            amr_wb_encoder_init(b, m, e, sample_rate, num_channels)
      [] e.ops = "mp3" -> mp3_encoder_init(m, e)
      [] OTHER -> g711_encoder_init(m, e)

\* a failed step releases the buffers initialised before it
Rollback(m, data) == life_buffer_deinit(m, data)

life_encoder_adapter(r) ==
    IF r.ret # MUX_OK
    THEN InitResult(Rollback(r.m, r.inst.output).m, r.ret,
                    [r.inst EXCEPT !.output = Rollback(r.m, @).data])
    ELSE r

life_encoder_buffer(b, e, sample_rate, num_channels, r) ==
    IF r.ret # MUX_OK THEN InitResult(r.m, r.ret, e)
    ELSE life_encoder_adapter(
             encoder_init_op(b, op_call(b, r.m, e.ops, "encoder_init"),
                             [e EXCEPT !.output = r.data],
                             sample_rate, num_channels))

life_encoder_lookup(b, m, codec_type, sample_rate, num_channels, num_streams, ops) ==
    IF CodecMissing(b, ops, "encoder_init")
    THEN InitResult(m, MUX_ERROR_NOCODEC, ZeroEncoder)
    ELSE life_encoder_buffer(b, [ZeroEncoder EXCEPT !.codec_type = codec_type,
                                                    !.ops = ops,
                                                    !.num_streams = num_streams],
                             sample_rate, num_channels,
                             life_buffer_init(m, OutputBufInit))

\* mux_encoder_init on a non-NULL enc
life_encoder_init(b, m, e, codec_type, sample_rate, num_channels, num_streams) ==
    IF StreamCountInvalid(num_streams)
    THEN InitResult(m, MUX_ERROR_INVAL, e)
    ELSE life_encoder_lookup(b, m, codec_type, sample_rate, num_channels,
                             num_streams, mux_get_codec_ops(b, codec_type))

\* ops->encoder_deinit(enc)
encoder_deinit_op(m, e) ==
    IF e.ops \in {"amr", "amr_wb", "mp3"} THEN native_encoder_deinit(m, e)
    ELSE g711_encoder_deinit(m, e)

life_encoder_release(r) ==
    [m |-> life_buffer_deinit(r.m, r.inst.output).m, inst |-> ZeroEncoder]

\* mux_encoder_deinit on a non-NULL enc
life_encoder_deinit(b, m, e) ==
    IF e.ops # NullOps /\ HasOp(b, e.ops, "encoder_deinit")
    THEN life_encoder_release(
             encoder_deinit_op(op_call(b, m, e.ops, "encoder_deinit"), e))
    ELSE life_encoder_release([m |-> m, inst |-> e])

\* mux_encoder_new: self is the instance pointer returned, NULL on failure
NewResult(r, self) ==
    IF r.ret # MUX_OK
    THEN [m |-> free(r.m, self), self |-> NULL, ret |-> r.ret, inst |-> r.inst]
    ELSE [m |-> r.m, self |-> self, ret |-> r.ret, inst |-> r.inst]

life_encoder_calloc(b, a, codec_type, sample_rate, num_channels, num_streams) ==
    IF a.ptr = NULL
    THEN [m |-> a.m, self |-> NULL, ret |-> MUX_ERROR_NOMEM, inst |-> ZeroEncoder]
    ELSE NewResult(life_encoder_init(b, a.m, ZeroEncoder, codec_type,
                                     sample_rate, num_channels, num_streams),
                   a.ptr)

life_encoder_new(b, m, codec_type, sample_rate, num_channels, num_streams) ==
    life_encoder_calloc(b, malloc(m), codec_type, sample_rate, num_channels,
                        num_streams)

\* mux_encoder_destroy on a non-NULL enc
life_encoder_destroy(b, m, e, self) ==
    [m |-> free(life_encoder_deinit(b, m, e).m, self), inst |-> ZeroEncoder]

\* ops->decoder_init(dec, params, num_params)
decoder_init_op(b, m, d, inited) ==
    CASE ~HasOp(b, d.ops, "decoder_init") ->
            [r |-> InitResult(m, MUX_ERROR_INIT, d), inited |-> inited]
      [] d.ops = "amr" -> [r |-> amr_decoder_init(m, d), inited |-> inited]
      [] d.ops = "mp3" -> mp3_decoder_init(m, d, inited)
      [] OTHER -> [r |-> g711_decoder_init(m, d), inited |-> inited]

life_decoder_rollback(r) ==
    InitResult(Rollback(Rollback(r.m, r.inst.audio_output).m,
                        r.inst.side_output).m,
               r.ret,
               [r.inst EXCEPT !.audio_output = Rollback(r.m, @).data,
                              !.side_output = Rollback(r.m, @).data])

life_decoder_adapter(x) ==
    IF x.r.ret # MUX_OK
    THEN [r |-> life_decoder_rollback(x.r), inited |-> x.inited]
    ELSE x

life_decoder_side(b, d, inited, r) ==
    IF r.ret # MUX_OK
    THEN [r |-> InitResult(Rollback(r.m, d.audio_output).m, r.ret,
                           [d EXCEPT !.audio_output =
                                         Rollback(r.m, d.audio_output).data]),
          inited |-> inited]
    ELSE life_decoder_adapter(
             decoder_init_op(b, op_call(b, r.m, d.ops, "decoder_init"),
                             [d EXCEPT !.side_output = r.data], inited))

life_decoder_audio(b, d, inited, r) ==
    IF r.ret # MUX_OK THEN [r |-> InitResult(r.m, r.ret, d), inited |-> inited]
    ELSE life_decoder_side(b, [d EXCEPT !.audio_output = r.data], inited,
                           life_buffer_init(r.m, SideBufInit))

life_decoder_lookup(b, m, codec_type, num_streams, inited, ops) ==
    IF CodecMissing(b, ops, "decoder_init")
    THEN [r |-> InitResult(m, MUX_ERROR_NOCODEC, ZeroDecoder), inited |-> inited]
    ELSE life_decoder_audio(b, [ZeroDecoder EXCEPT !.codec_type = codec_type,
                                                   !.ops = ops,
                                                   !.num_streams = num_streams],
                            inited, life_buffer_init(m, AudioBufInit))

\* mux_decoder_init on a non-NULL dec
life_decoder_init(b, m, d, codec_type, num_streams, inited) ==
    IF StreamCountInvalid(num_streams)
    THEN [r |-> InitResult(m, MUX_ERROR_INVAL, d), inited |-> inited]
    ELSE life_decoder_lookup(b, m, codec_type, num_streams, inited,
                             mux_get_codec_ops(b, codec_type))

life_decoder_release(r) ==
    [m |-> life_buffer_deinit(life_buffer_deinit(r.m, r.inst.audio_output).m,
                              r.inst.side_output).m,
     inst |-> ZeroDecoder]

\* mux_decoder_deinit on a non-NULL dec
life_decoder_deinit(b, m, d) ==
    IF d.ops # NullOps /\ HasOp(b, d.ops, "decoder_deinit")
    THEN life_decoder_release(
             adapter_decoder_deinit(op_call(b, m, d.ops, "decoder_deinit"), d))
    ELSE life_decoder_release([m |-> m, inst |-> d])

\* mux_decoder_new
life_decoder_calloc(b, a, codec_type, num_streams, inited) ==
    IF a.ptr = NULL
    THEN [x |-> [m |-> a.m, self |-> NULL, ret |-> MUX_ERROR_NOMEM,
                 inst |-> ZeroDecoder],
          inited |-> inited]
    ELSE LET x == life_decoder_init(b, a.m, ZeroDecoder, codec_type,
                                    num_streams, inited)
         IN [x |-> NewResult(x.r, a.ptr), inited |-> x.inited]

life_decoder_new(b, m, codec_type, num_streams, inited) ==
    life_decoder_calloc(b, malloc(m), codec_type, num_streams, inited)

\* mux_decoder_destroy on a non-NULL dec
life_decoder_destroy(b, m, d, self) ==
    [m |-> free(life_decoder_deinit(b, m, d).m, self), inst |-> ZeroDecoder]

(***************************************************************************)
(* The AMR-NB encoder adapter (codec_amr.c): samples are accumulated in    *)
(* input_buf and handed to the native encoder 160 at a time.  The native   *)
(* encoder belongs to opencore-amrnb: a call either fails (a negative      *)
(* frame size) or fills frame_buf with a frame                             *)
(***************************************************************************)
AmrZeroBuf == [i \in 1..AMR_FRAME_SAMPLES |-> 0]

\* mux_encoder_init followed by amr_encoder_init (calloc, default mode)
AmrEncoder(num_streams) ==
    [num_streams |-> num_streams, output |-> mux_buffer_init(OutputBufInit),
     error |-> MUX_OK,
     data |-> [mode |-> AMR_MODE_1220, input_buf |-> AmrZeroBuf,
               input_samples |-> 0]]

\* stand-in for the frame the library writes to frame_buf: its first byte
\* depends on the samples it was given
NativeFrame(input_buf) ==
    [i \in 1..AMR_MAX_FRAME_SIZE |->
        IF i = 1
        THEN Cardinality({j \in 1..AMR_FRAME_SAMPLES : input_buf[j] # 0})
        ELSE 0]

\* Encoder_Interface_Encode(data->encoder, data->mode, data->input_buf,
\* frame_buf, 0)
Encoder_Interface_Encode(input_buf, ok) ==
    IF ok
    THEN [frame_size |-> AMR_MAX_FRAME_SIZE, frame |-> NativeFrame(input_buf)]
    ELSE [frame_size |-> -1, frame |-> << >>]

NativeCall(by, input_buf, frame_size, written) ==
    [by |-> by, input |-> input_buf, frame_size |-> frame_size,
     written |-> written]

AmrResult(ret, e, consumed, native) ==
    [ret |-> ret, enc |-> e, consumed |-> consumed, native |-> native]

\* memcpy(&data->input_buf[data->input_samples], samples, copy * 2);
\* data->input_samples += copy
AmrFill(data, samples, copy) ==
    [data EXCEPT
        !.input_buf = [i \in 1..AMR_FRAME_SAMPLES |->
            IF i > data.input_samples /\ i <= data.input_samples + copy
            THEN samples[i - data.input_samples]
            ELSE data.input_buf[i]],
        !.input_samples = data.input_samples + copy]

RECURSIVE amr_encode_loop(_, _, _, _, _)

\* after mux_leb128_write_frame; an error return leaves *input_consumed
\* unwritten (-1 here) and input_samples at 160
amr_encode_write(e, rest, native, fail_at, consumed, r, w) ==
    IF w.ret # MUX_OK
    THEN AmrResult(w.ret, e, -1,
                   Append(native, NativeCall("encode", e.data.input_buf,
                                             r.frame_size, FALSE)))
    ELSE amr_encode_loop([e EXCEPT !.output = w.buf,
                                   !.data.input_samples = 0],
                         rest,
                         Append(native, NativeCall("encode", e.data.input_buf,
                                                   r.frame_size, TRUE)),
                         fail_at, consumed)

\* after Encoder_Interface_Encode
amr_encode_native(e, rest, native, fail_at, consumed, r) ==
    IF r.frame_size < 0
    THEN AmrResult(MUX_ERROR_ENCODE, set_error(e, MUX_ERROR_ENCODE), -1,
                   Append(native, NativeCall("encode", e.data.input_buf,
                                             r.frame_size, FALSE)))
    ELSE amr_encode_write(e, rest, native, fail_at, consumed, r,
                          mux_leb128_write_frame(e.output, r.frame,
                                                 MUX_STREAM_AUDIO,
                                                 e.num_streams))

\* "Encode complete frame"
amr_encode_frame(e, rest, native, fail_at, consumed) ==
    IF e.data.input_samples = AMR_FRAME_SAMPLES
    THEN amr_encode_native(e, rest, native, fail_at, consumed,
                           Encoder_Interface_Encode(e.data.input_buf,
                                                    Len(native) + 1 # fail_at))
    ELSE amr_encode_loop(e, rest, native, fail_at, consumed)

\* "Fill input buffer"
amr_encode_fill(e, samples, native, fail_at, consumed, copy) ==
    amr_encode_frame([e EXCEPT !.data = AmrFill(e.data, samples, copy)],
                     SubSeq(samples, copy + 1, Len(samples)),
                     native, fail_at, consumed + 2 * copy)

\* while (samples_available > 0)
amr_encode_loop(e, samples, native, fail_at, consumed) ==
    IF Len(samples) = 0
    THEN AmrResult(MUX_OK, e, consumed, native)
    ELSE amr_encode_fill(e, samples, native, fail_at, consumed,
                         Min(Len(samples),
                             AMR_FRAME_SAMPLES - e.data.input_samples))

\* "Side channel: pass through unchanged"
amr_encode_side(e, input, w) ==
    IF w.ret # MUX_OK
    THEN AmrResult(w.ret, e, -1, << >>)
    ELSE AmrResult(MUX_OK, [e EXCEPT !.output = w.buf], Len(input), << >>)

\* amr_encoder_encode; input is the bytes of a side-channel call and the
\* input_size / 2 samples of an audio call; the fail_at-th native call of
\* the operation fails
amr_encoder_encode(e, input, input_size, stream_type, fail_at) ==
    IF input_size = 0
    THEN AmrResult(MUX_OK, e, 0, << >>)
    ELSE IF stream_type # MUX_STREAM_AUDIO
    THEN amr_encode_side(e, input,
                         mux_leb128_write_frame(e.output, input, stream_type,
                                                e.num_streams))
    ELSE amr_encode_loop(e, input, << >>, fail_at, 0)

\* a read that resets the error record when it succeeds
amr_encoder_read_ClearsError(e, output_size) ==
    LET r == mux_buffer_read(e.output, output_size)
    IN IF r.ret # MUX_OK
       THEN [ret |-> r.ret, enc |-> e, bytes |-> << >>]
       ELSE [ret |-> MUX_OK,
             enc |-> [e EXCEPT !.output = r.buf, !.error = MUX_OK],
             bytes |-> r.bytes]

\* amr_encoder_read
amr_encoder_read(e, output_size) ==
    LET r == mux_buffer_read(e.output, output_size)
    IN IF r.ret # MUX_OK
       THEN [ret |-> r.ret, enc |-> e, bytes |-> << >>]
       ELSE [ret |-> MUX_OK, enc |-> [e EXCEPT !.output = r.buf],
             bytes |-> r.bytes]

\* a finalize that leaves the tail of input_buf as it is
AmrPad_Keep(data) == data.input_buf

\* memset(&data->input_buf[data->input_samples], 0, ...)
AmrPad(data) ==
    [i \in 1..AMR_FRAME_SAMPLES |->
        IF i > data.input_samples THEN 0 ELSE data.input_buf[i]]

amr_finalize_write(e, r, w) ==
    IF w.ret # MUX_OK
    THEN AmrResult(w.ret, e, 0,
                   <<NativeCall("finalize", e.data.input_buf, r.frame_size,
                                FALSE)>>)
    ELSE AmrResult(MUX_OK,
                   [e EXCEPT !.output = w.buf, !.data.input_samples = 0], 0,
                   <<NativeCall("finalize", e.data.input_buf, r.frame_size,
                                TRUE)>>)

\* if (frame_size > 0) write the frame; data->input_samples = 0
amr_finalize_native(e, r) ==
    IF r.frame_size > 0
    THEN amr_finalize_write(e, r,
                            mux_leb128_write_frame(e.output, r.frame,
                                                   MUX_STREAM_AUDIO,
                                                   e.num_streams))
    ELSE AmrResult(MUX_OK, [e EXCEPT !.data.input_samples = 0], 0,
                   <<NativeCall("finalize", e.data.input_buf, r.frame_size,
                                FALSE)>>)

amr_finalize_padded(e, ok) ==
    amr_finalize_native(e, Encoder_Interface_Encode(e.data.input_buf, ok))

\* amr_encoder_finalize
amr_encoder_finalize(e, ok) ==
    IF e.data.input_samples > 0
    THEN amr_finalize_padded([e EXCEPT !.data.input_buf = AmrPad(e.data)], ok)
    ELSE AmrResult(MUX_OK, e, 0, << >>)

\* mux_encoder_clear_error
clear_error(inst) == [inst EXCEPT !.error = MUX_OK]

(***************************************************************************)
(* Buffer writes with a realloc that can fail (buffer.c, mux_leb128.c):    *)
(* a is [step, fail_at], the fail_at-th realloc of the operation fails     *)
(***************************************************************************)
Reallocs(fail_at) == [step |-> 0, fail_at |-> fail_at]

MemResult(ret, buf, a) == [ret |-> ret, buf |-> buf, a |-> a]

\* new_data = realloc(buf->data, new_capacity); a failed realloc leaves
\* the block and the buffer as they were
mem_buffer_realloc(buf, new_capacity, a) ==
    IF a.step + 1 = a.fail_at
    THEN MemResult(MUX_ERROR_NOMEM, buf, [a EXCEPT !.step = a.step + 1])
    ELSE MemResult(MUX_OK, [buf EXCEPT !.capacity = new_capacity],
                   [a EXCEPT !.step = a.step + 1])

\* mux_buffer_ensure_capacity
mem_buffer_ensure_capacity(buf, needed, a) ==
    IF buf.capacity >= needed
    THEN MemResult(MUX_OK, buf, a)
    ELSE mem_buffer_realloc(buf, GrownCapacity(buf.capacity, needed), a)

\* memcpy(buf->data + buf->size, data, size); buf->size += size
mem_buffer_store(bytes, r) ==
    IF r.ret # MUX_OK
    THEN r
    ELSE MemResult(MUX_OK,
                   [r.buf EXCEPT !.data = SubSeq(r.buf.data, 1, r.buf.size)
                                              \o bytes,
                                 !.size = r.buf.size + Len(bytes)],
                   r.a)

\* mux_buffer_write
mem_buffer_write(buf, bytes, a) ==
    IF Len(bytes) = 0
    THEN MemResult(MUX_OK, buf, a)
    ELSE mem_buffer_store(bytes,
                          mem_buffer_ensure_capacity(buf, buf.size + Len(bytes),
                                                     a))

\* "Write payload", after the header write returned h
mem_write_payload(payload, h) ==
    IF h.ret # MUX_OK
    THEN h
    ELSE mem_buffer_write(h.buf, payload, h.a)

\* "Mux mode - write LEB128 frame"
mem_write_header(output, payload, hdr, a) ==
    IF hdr.ret < 0
    THEN MemResult(hdr.ret, output, a)
    ELSE mem_write_payload(payload, mem_buffer_write(output, hdr.bytes, a))

\* mux_leb128_write_frame
mem_write_frame(output, payload, stream_type, num_streams, a) ==
    IF num_streams = 1
    THEN mem_buffer_write(output, payload, a)
    ELSE mem_write_header(output, payload,
                          mux_leb128_encode(FrameHeaderValue(Len(payload),
                                                             stream_type), 10),
                          a)

(***************************************************************************)
(* State                                                                   *)
(***************************************************************************)
VARIABLES
    leb_pc, leb_value, leb_enc, leb_dec,
    f_num_streams, f_out, f_in, f_written, f_fed, f_nread, f_nbytes, f_last,
    codec, enc, dec, encoded, wire, fed, out_audio, out_side, last,
    build, heap, mpg123_inited, l_inst, l_last,
    u_fin, u_err, u_calls,
    a_enc, a_stream, a_native, a_last, a_fin, a_calls,
    m_out, m_num_streams, m_last, m_calls,
    t_pc, t_codec, t_n, t_own, t_ret, t_inited,
    s_pcm, s_codec, s_code, s_back,
    b_buf, b_audio, b_init, b_peak, b_ops, b_last,
    p_codec, p_enc, p_stream, p_rest, p_last,
    w_codec, w_dec, w_pc, w_cap, w_k, w_calls, w_last

leb_vars == <<leb_pc, leb_value, leb_enc, leb_dec>>
frame_vars == <<f_num_streams, f_out, f_in, f_written, f_fed, f_nread, f_nbytes, f_last>>
codec_vars == <<codec, enc, dec, encoded, wire, fed, out_audio, out_side, last>>
life_vars == <<build, heap, mpg123_inited, l_inst, l_last>>
use_vars == <<u_fin, u_err, u_calls>>
amr_vars == <<a_enc, a_stream, a_native, a_last, a_fin, a_calls>>
mem_vars == <<m_out, m_num_streams, m_last, m_calls>>
thr_vars == <<t_pc, t_codec, t_n, t_own, t_ret, t_inited>>
samp_vars == <<s_pcm, s_codec, s_code, s_back>>
buf_vars == <<b_buf, b_audio, b_init, b_peak, b_ops, b_last>>
sub_vars == <<p_codec, p_enc, p_stream, p_rest, p_last>>
loop_vars == <<w_codec, w_dec, w_pc, w_cap, w_k, w_calls, w_last>>
later_vars == <<life_vars, use_vars, amr_vars, mem_vars, thr_vars, samp_vars, buf_vars, sub_vars, loop_vars>>
not_life_vars == <<leb_vars, frame_vars, codec_vars, use_vars, amr_vars, mem_vars, thr_vars, samp_vars, buf_vars, sub_vars, loop_vars>>
not_use_vars == <<leb_vars, frame_vars, life_vars, amr_vars, mem_vars, thr_vars, samp_vars, buf_vars, sub_vars, loop_vars>>
not_leb_vars == <<frame_vars, codec_vars, later_vars>>
not_frame_vars == <<leb_vars, codec_vars, later_vars>>
not_codec_vars == <<leb_vars, frame_vars, later_vars>>
not_amr_vars == <<leb_vars, frame_vars, codec_vars, life_vars, use_vars, mem_vars, thr_vars, samp_vars, buf_vars, sub_vars, loop_vars>>
not_mem_vars == <<leb_vars, frame_vars, codec_vars, life_vars, use_vars, amr_vars, thr_vars, samp_vars, buf_vars, sub_vars, loop_vars>>
not_thr_vars == <<leb_vars, frame_vars, codec_vars, life_vars, use_vars, amr_vars, mem_vars, samp_vars, buf_vars, sub_vars, loop_vars>>
not_samp_vars == <<leb_vars, frame_vars, codec_vars, life_vars, use_vars, amr_vars, mem_vars, thr_vars, buf_vars, sub_vars, loop_vars>>
not_buf_vars == <<leb_vars, frame_vars, codec_vars, life_vars, use_vars, amr_vars, mem_vars, thr_vars, samp_vars, sub_vars, loop_vars>>
not_sub_vars == <<leb_vars, frame_vars, codec_vars, life_vars, use_vars, amr_vars, mem_vars, thr_vars, samp_vars, buf_vars, loop_vars>>
not_loop_vars == <<leb_vars, frame_vars, codec_vars, life_vars, use_vars, amr_vars, mem_vars, thr_vars, samp_vars, buf_vars, sub_vars>>
vars == <<leb_vars, frame_vars, codec_vars, later_vars>>

(***************************************************************************)
(* Inputs                                                                  *)
(***************************************************************************)
\* 2^k - 1 for k = 0..64, and 2^k for k = 0..63
U64Ones(k) ==
    [i \in 1..4 |->
        IF k >= 16 * i THEN LimbBase - 1
        ELSE IF k <= 16 * (i - 1) THEN 0
        ELSE Pow2(k - 16 * (i - 1)) - 1]

U64Bit(k) ==
    [i \in 1..4 |-> IF k \div 16 = i - 1 THEN Pow2(k % 16) ELSE 0]

LebValues == {U64Ones(k) : k \in 0..64} \cup {U64Bit(k) : k \in 0..63}

\* payloads handed to write_frame; in mux mode one of them is long enough
\* to need a two-byte header (passthrough mode writes no header)
LongPayload ==
    <<9, 9, 9, 9, 9, 9, 9, 9, 9, 9, 9, 9, 9, 9, 9, 9,
      9, 9, 9, 9, 9, 9, 9, 9, 9, 9, 9, 9, 9, 9, 9, 9,
      9, 9, 9, 9, 9, 9, 9, 9, 9, 9, 9, 9, 9, 9, 9, 9,
      9, 9, 9, 9, 9, 9, 9, 9, 9, 9, 9, 9, 9, 9, 9, 9>>
ShortPayloads == {<< >>, <<7>>, <<200, 1>>}
MuxPayloads == {<< >>, <<7>>, LongPayload}
FramePayloads(num_streams) ==
    IF num_streams = 1 THEN ShortPayloads ELSE MuxPayloads
StreamTypes == {MUX_STREAM_AUDIO, MUX_STREAM_SIDE_CHANNEL}
ChunkSizes == {1, 64}
Capacities == {1, 8192}

NoCall == [op |-> "none"]

LebIdle ==
    /\ leb_pc = "idle"
    /\ leb_value = U64Zero
    /\ leb_enc = [ret |-> 0, bytes |-> << >>]
    /\ leb_dec = [ret |-> 0, value |-> U64Zero, bytes_read |-> 0]

FrameIdle ==
    /\ f_num_streams = 0
    /\ f_out = mux_buffer_init(0)
    /\ f_in = mux_buffer_init(0)
    /\ f_written = << >>
    /\ f_fed = 0
    /\ f_nread = 0
    /\ f_nbytes = 0
    /\ f_last = NoCall

CodecIdle ==
    /\ codec = "none"
    /\ enc = mux_encoder_init(0)
    /\ dec = mux_decoder_init(0)
    /\ encoded = << >>
    /\ wire = << >>
    /\ fed = << >>
    /\ out_audio = << >>
    /\ out_side = << >>
    /\ last = NoCall

NoInstance ==
    [kind |-> "none", storage |-> "none", self |-> NULL,
     inst |-> ZeroEncoder, live |-> FALSE]

LifeIdle ==
    /\ build = {}
    /\ heap = {}
    /\ mpg123_inited = FALSE
    /\ l_inst = NoInstance
    /\ l_last = NoCall

UseIdle ==
    /\ u_fin = [enc |-> FALSE, dec |-> FALSE]
    /\ u_err = [enc |-> MUX_OK, dec |-> MUX_OK]
    /\ u_calls = 0

NoAmrEncoder ==
    [num_streams |-> 0, output |-> mux_buffer_init(0), error |-> MUX_OK,
     data |-> [mode |-> 0, input_buf |-> << >>, input_samples |-> 0]]

AmrIdle ==
    /\ a_enc = NoAmrEncoder
    /\ a_stream = << >>
    /\ a_native = << >>
    /\ a_last = NoCall
    /\ a_fin = FALSE
    /\ a_calls = 0

MemIdle ==
    /\ m_out = mux_buffer_init(0)
    /\ m_num_streams = 0
    /\ m_last = NoCall
    /\ m_calls = 0

\* no thread has started a construction; the static of mp3_decoder_init is 0
ThrIdle ==
    /\ t_pc = [t \in {"X", "Y"} |-> "idle"]
    /\ t_codec = [t \in {"X", "Y"} |-> "none"]
    /\ t_n = [t \in {"X", "Y"} |-> 0]
    /\ t_own = [t \in {"X", "Y"} |-> FALSE]
    /\ t_ret = [t \in {"X", "Y"} |-> MUX_OK]
    /\ t_inited = FALSE

\* no sample has been companded
SampIdle ==
    /\ s_pcm = 0
    /\ s_codec = "none"
    /\ s_code = 0
    /\ s_back = 0

\* no buffer under test
BufIdle ==
    /\ b_buf = mux_buffer_init(0)
    /\ b_audio = mux_buffer_init(0)
    /\ b_init = 0
    /\ b_peak = 0
    /\ b_ops = 0
    /\ b_last = NoCall

SubIdle ==
    /\ p_codec = "none"
    /\ p_enc = mux_encoder_init(0)
    /\ p_stream = 0
    /\ p_rest = << >>
    /\ p_last = NoCall

LoopIdle ==
    /\ w_codec = "none"
    /\ w_dec = mux_decoder_init(0)
    /\ w_pc = "idle"
    /\ w_cap = 0
    /\ w_k = 0
    /\ w_calls = 0
    /\ w_last = NoCall

LaterIdle == LifeIdle /\ UseIdle /\ AmrIdle /\ MemIdle /\ ThrIdle /\ SampIdle /\ BufIdle /\ SubIdle /\ LoopIdle

(***************************************************************************)
(* SpecLeb: encode a value into a 10-byte array, then decode the bytes     *)
(***************************************************************************)
LebInit ==
    /\ leb_pc = "start"
    /\ leb_value \in LebValues
    /\ leb_enc = [ret |-> 0, bytes |-> << >>]
    /\ leb_dec = [ret |-> 0, value |-> U64Zero, bytes_read |-> 0]
    /\ FrameIdle
    /\ CodecIdle
    /\ LaterIdle

LebEncode ==
    /\ leb_pc = "start"
    /\ leb_enc' = mux_leb128_encode(leb_value, 10)
    /\ leb_pc' = "encoded"
    /\ UNCHANGED <<leb_value, leb_dec, not_leb_vars>>

LebDecode ==
    /\ leb_pc = "encoded"
    /\ leb_enc.ret > 0
    /\ leb_dec' = mux_leb128_decode(leb_enc.bytes)
    /\ leb_pc' = "decoded"
    /\ UNCHANGED <<leb_value, leb_enc, not_leb_vars>>

\* the decoder is handed the first k bytes only, k less than the length
LebDecodePrefix(k) ==
    /\ leb_pc = "encoded"
    /\ leb_enc.ret > k
    /\ leb_dec' = mux_leb128_decode(SubSeq(leb_enc.bytes, 1, k))
    /\ leb_pc' = "prefix"
    /\ UNCHANGED <<leb_value, leb_enc, not_leb_vars>>

LebNext ==
    \/ LebEncode
    \/ LebDecode
    \/ \E k \in 0..9 : LebDecodePrefix(k)

SpecLeb == LebInit /\ [][LebNext]_vars

(***************************************************************************)
(* SpecFrame: a writer's buffer, a caller moving bytes in chunks, and a    *)
(* reader's buffer                                                         *)
(***************************************************************************)
FrameInit ==
    /\ LebIdle
    /\ CodecIdle
    /\ LaterIdle
    /\ f_num_streams \in {1, 2}
    /\ f_out = mux_buffer_init(OutputBufInit)
    /\ f_in = mux_buffer_init(InputBufInit)
    /\ f_written = << >>
    /\ f_fed = 0
    /\ f_nread = 0
    /\ f_nbytes = 0
    /\ f_last = NoCall

\* the caller queues its frames before it starts moving bytes to the reader
WriteFrame(payload, stream_type) ==
    /\ Len(f_written) < MaxFrames
    /\ f_fed = 0
    /\ LET r == mux_leb128_write_frame(f_out, payload, stream_type, f_num_streams)
       IN /\ r.ret = MUX_OK
          /\ f_out' = r.buf
          /\ f_written' = Append(f_written,
                                 [payload |-> payload, stream |-> stream_type])
    /\ f_last' = NoCall
    /\ UNCHANGED <<f_num_streams, f_in, f_fed, f_nread, f_nbytes, not_frame_vars>>

\* the caller drains up to n bytes from the writer and appends them to the
\* reader's input buffer
FeedChunk(n) ==
    /\ LET r == mux_buffer_read(f_out, n)
       IN /\ r.ret = MUX_OK
          /\ f_out' = r.buf
          /\ f_in' = mux_buffer_write(f_in, r.bytes)
          /\ f_fed' = f_fed + Len(r.bytes)
    /\ f_last' = NoCall
    /\ UNCHANGED <<f_num_streams, f_written, f_nread, f_nbytes, not_frame_vars>>

ReadFrame(capacity) ==
    /\ LET r == mux_leb128_read_frame(f_in, capacity, f_num_streams)
       IN /\ f_in' = r.buf
          /\ f_nread' = IF r.ret = MUX_OK THEN f_nread + 1 ELSE f_nread
          /\ f_nbytes' = IF r.ret = MUX_OK THEN f_nbytes + Len(r.payload)
                         ELSE f_nbytes
          /\ f_last' = [op |-> "read_frame", ret |-> r.ret,
                        capacity |-> capacity,
                        payload |-> r.payload,
                        payload_size |-> r.payload_size,
                        stream_type |-> r.stream_type,
                        written |-> r.written,
                        pre |-> f_in,
                        nread |-> f_nread,
                        nbytes |-> f_nbytes,
                        prev |-> IF f_last.op = "read_frame"
                                    /\ f_last.ret = MUX_ERROR_INVAL
                                 THEN [ret |-> f_last.ret,
                                       payload_size |-> f_last.payload_size,
                                       stream_type |-> f_last.stream_type,
                                       written |-> f_last.written]
                                 ELSE NoCall]
    /\ UNCHANGED <<f_num_streams, f_out, f_written, f_fed, not_frame_vars>>

FrameNext ==
    \/ \E p \in FramePayloads(f_num_streams), st \in StreamTypes : WriteFrame(p, st)
    \/ \E n \in ChunkSizes : FeedChunk(n)
    \/ \E c \in Capacities : ReadFrame(c)

SpecFrame == FrameInit /\ [][FrameNext]_vars


(***************************************************************************)
(* Spec: one encoder and one decoder of the same codec and stream count;   *)
(* the caller encodes payloads, drains the encoder, passes the drained     *)
(* bytes on to decoder_decode in chunks, and reads the decoder.            *)
(***************************************************************************)
Codecs == {"pcm", "alaw", "mulaw"}

\* The values the frame functions receive as num_streams, call by call.
\* The A-law and mu-law adapters pass the instance's num_streams.  The PCM
\* adapter's calls carry no such argument (codec_pcm.c 65, 191, 209), so
\* the parameter is indeterminate there: 1, or a value other than 1.
NumStreamsArgs(c, num_streams) ==
    IF c = "pcm"
    THEN [1..ArgPeriod -> {1, 2}]
    ELSE {[i \in 1..ArgPeriod |-> num_streams]}

\* payloads handed to encoder_encode: an audio payload is a run of int16_t
\* samples (one of them with a trailing odd byte); PCM copies its payloads,
\* so one of each kind is enough there
AudioPayloads(c) ==
    IF c = "pcm" THEN {<<0, 128>>} ELSE {<<0, 128>>, <<52, 18, 200>>}
SidePayloads(c) ==
    IF c = "pcm" THEN {<<7>>} ELSE {<<7>>, <<200, 1>>}
Payloads(c, stream_type) ==
    IF stream_type = MUX_STREAM_AUDIO THEN AudioPayloads(c) ELSE SidePayloads(c)
DrainSizes == {2, 4096}
FeedSizes == {1, 4096}
ReadSizes == {1, 4096}

Init ==
    /\ LebIdle
    /\ FrameIdle
    /\ LaterIdle
    /\ codec \in Codecs
    /\ \E n \in {1, 2} :
          /\ enc = mux_encoder_init(n)
          /\ dec = mux_decoder_init(n)
    /\ encoded = << >>
    /\ wire = << >>
    /\ fed = << >>
    /\ out_audio = << >>
    /\ out_side = << >>
    /\ last = NoCall

\* the caller queues its payloads before it starts draining the encoder
EncoderEncode(input, stream_type) ==
    /\ Len(encoded) < MaxEncodes
    /\ wire = << >> /\ fed = << >>
    /\ \E args \in NumStreamsArgs(codec, enc.num_streams) :
          LET r == encoder_encode(codec, enc, input, stream_type, args)
          IN /\ r.ret = MUX_OK
             /\ enc' = r.enc
             /\ encoded' = Append(encoded,
                                  [payload |-> SubSeq(input, 1, r.consumed),
                                   stream |-> stream_type])
    /\ last' = NoCall
    /\ UNCHANGED <<codec, dec, wire, fed, out_audio, out_side,
                   not_codec_vars>>

EncoderRead(output_size) ==
    /\ LET r == encoder_read(enc, output_size)
       IN /\ r.ret = MUX_OK
          /\ enc' = r.enc
          /\ wire' = wire \o r.bytes
    /\ last' = NoCall
    /\ UNCHANGED <<codec, dec, encoded, fed, out_audio, out_side,
                   not_codec_vars>>

\* the caller passes the bytes on once it has drained the encoder
DecoderDecode(n) ==
    /\ Len(wire) > 0
    /\ mux_buffer_available(enc.output) = 0
    /\ LET size == Min(n, Len(wire))
           input == SubSeq(wire, 1, size)
       IN /\ \E args \in NumStreamsArgs(codec, dec.num_streams),
                undef \in FrameSizeOutcomes :
                LET r == decoder_decode(codec, dec, input, args, undef)
                IN /\ dec' = r.dec
                   /\ last' = [op |-> "decoder_decode", ret |-> r.ret,
                               consumed |-> r.consumed,
                               input_size |-> size]
          /\ wire' = SubSeq(wire, size + 1, Len(wire))
          /\ fed' = fed \o input
    /\ UNCHANGED <<codec, enc, encoded, out_audio, out_side,
                   not_codec_vars>>

DecoderRead(output_size) ==
    /\ LET r == decoder_read(dec, output_size)
       IN /\ dec' = r.dec
          /\ out_audio' = IF r.ret = MUX_OK /\ r.stream_type = MUX_STREAM_AUDIO
                          THEN out_audio \o r.bytes ELSE out_audio
          /\ out_side' = IF r.ret = MUX_OK /\ r.stream_type = MUX_STREAM_SIDE_CHANNEL
                         THEN out_side \o r.bytes ELSE out_side
          /\ last' = [op |-> "decoder_read", ret |-> r.ret,
                      output_size |-> output_size,
                      bytes |-> r.bytes, stream_type |-> r.stream_type,
                      pre_audio |-> Unread(dec.audio_output),
                      pre_side |-> Unread(dec.side_output),
                      first |-> out_audio = << >> /\ out_side = << >>]
    /\ UNCHANGED <<codec, enc, encoded, wire, fed, not_codec_vars>>

Next ==
    \/ \E st \in StreamTypes : \E p \in Payloads(codec, st) : EncoderEncode(p, st)
    \/ \E n \in DrainSizes : EncoderRead(n)
    \/ \E n \in FeedSizes : DecoderDecode(n)
    \/ \E n \in ReadSizes : DecoderRead(n)

Spec == Init /\ [][Next]_vars

(***************************************************************************)
(* SpecDrain: a caller of one encoder, or of one decoder, that calls read  *)
(* again and again, with any capacity >= 1, between and after its encode   *)
(* or decode calls                                                         *)
(***************************************************************************)
\* bytes handed to decoder_decode: an audio frame, a side frame, a frame
\* without its last byte
DrainInputs == {<<4, 0, 128>>, <<3, 7>>, <<4, 0>>}

\* decoder_decode, while no more than MaxFed bytes have been passed
DrainDecode(input) ==
    /\ encoded = << >>
    /\ Len(fed) + Len(input) <= MaxFed
    /\ \E args \in NumStreamsArgs(codec, dec.num_streams),
          undef \in FrameSizeOutcomes :
          LET r == decoder_decode(codec, dec, input, args, undef)
          IN /\ dec' = r.dec
             /\ last' = [op |-> "decoder_decode", ret |-> r.ret,
                         consumed |-> r.consumed, input_size |-> Len(input)]
    /\ fed' = fed \o input
    /\ UNCHANGED <<codec, enc, encoded, wire, out_audio, out_side,
                   not_codec_vars>>

\* encoder_read, whatever it returns
DrainEncoderRead(output_size) ==
    /\ LET r == encoder_read(enc, output_size)
       IN /\ enc' = r.enc
          /\ wire' = wire \o r.bytes
          /\ last' = [op |-> "encoder_read", ret |-> r.ret,
                      output_size |-> output_size, bytes |-> r.bytes,
                      pre |-> Unread(enc.output)]
    /\ UNCHANGED <<codec, dec, encoded, fed, out_audio, out_side,
                   not_codec_vars>>

DecoderReads == \E n \in ReadSizes : DecoderRead(n)
EncoderReads == \E n \in DrainSizes : DrainEncoderRead(n)

DrainNext ==
    \/ \E st \in StreamTypes : \E p \in Payloads(codec, st) : EncoderEncode(p, st)
    \/ EncoderReads
    \/ \E input \in DrainInputs : DrainDecode(input)
    \/ DecoderReads

\* the reader keeps calling: a read that can return bytes is made in the end
SpecDrain ==
    Init /\ [][DrainNext]_vars /\ WF_vars(DecoderReads) /\ WF_vars(EncoderReads)

(***************************************************************************)
(* SpecLife: one caller constructing and destroying an encoder or a        *)
(* decoder, with any one allocation or native open failing                 *)
(***************************************************************************)
CodecTypes ==
    {-1, MUX_CODEC_PCM, MUX_CODEC_MP3, MUX_CODEC_ALAW, MUX_CODEC_AMR,
     MUX_CODEC_MAX}
StreamCounts == {0, 2, 3}
\* <<sample_rate, num_channels>>
AudioFormats == {<<AMR_SAMPLE_RATE, 1>>, <<AMR_SAMPLE_RATE, 2>>, <<44100, 1>>}
FailPoints == 0..MaxFailAt

LifeInit ==
    /\ LebIdle
    /\ FrameIdle
    /\ CodecIdle
    /\ UseIdle
    /\ AmrIdle
    /\ MemIdle
    /\ ThrIdle
    /\ SampIdle
    /\ BufIdle
    /\ SubIdle
    /\ LoopIdle
    /\ build \in Builds
    /\ heap = {}
    /\ mpg123_inited = FALSE
    /\ l_inst = NoInstance
    /\ l_last = NoCall

LifeCall(op, kind, ret, m, codec_type, num_streams) ==
    [op |-> op, kind |-> kind, ret |-> ret, trace |-> m.trace,
     codec_type |-> codec_type, num_streams |-> num_streams,
     pre_heap |-> heap, pre |-> l_inst]

\* mux_encoder_init on storage the caller owns (zeroed before its first use)
EncoderInit(codec_type, sample_rate, num_channels, num_streams, fail_at) ==
    /\ l_inst.storage = "none"
          \/ (l_inst.storage = "static" /\ l_inst.kind = "encoder"
              /\ ~l_inst.live)
    /\ LET e == IF l_inst.storage = "none" THEN ZeroEncoder ELSE l_inst.inst
           r == life_encoder_init(build, Machine(heap, fail_at), e, codec_type,
                                  sample_rate, num_channels, num_streams)
       IN /\ heap' = r.m.heap
          /\ l_inst' = [kind |-> "encoder", storage |-> "static",
                        self |-> NULL, inst |-> r.inst,
                        live |-> r.ret = MUX_OK]
          /\ l_last' = LifeCall("init", "encoder", r.ret, r.m, codec_type,
                                num_streams)
    /\ UNCHANGED <<build, mpg123_inited, not_life_vars>>

EncoderNew(codec_type, sample_rate, num_channels, num_streams, fail_at) ==
    /\ l_inst.storage = "none"
    /\ LET r == life_encoder_new(build, Machine(heap, fail_at), codec_type,
                                 sample_rate, num_channels, num_streams)
       IN /\ heap' = r.m.heap
          /\ l_inst' = IF r.self = NULL THEN NoInstance
                       ELSE [kind |-> "encoder", storage |-> "dynamic",
                             self |-> r.self, inst |-> r.inst, live |-> TRUE]
          /\ l_last' = LifeCall("new", "encoder", r.ret, r.m, codec_type,
                                num_streams)
    /\ UNCHANGED <<build, mpg123_inited, not_life_vars>>

EncoderDeinit ==
    /\ l_inst.storage # "none" /\ l_inst.kind = "encoder"
    /\ LET r == life_encoder_deinit(build, Machine(heap, 0), l_inst.inst)
       IN /\ heap' = r.m.heap
          /\ l_inst' = [l_inst EXCEPT !.inst = r.inst, !.live = FALSE]
          /\ l_last' = LifeCall("deinit", "encoder", MUX_OK, r.m,
                                l_inst.inst.codec_type,
                                l_inst.inst.num_streams)
    /\ UNCHANGED <<build, mpg123_inited, not_life_vars>>

EncoderDestroy ==
    /\ l_inst.storage = "dynamic" /\ l_inst.kind = "encoder"
    /\ LET r == life_encoder_destroy(build, Machine(heap, 0), l_inst.inst,
                                     l_inst.self)
       IN /\ heap' = r.m.heap
          /\ l_inst' = NoInstance
          /\ l_last' = LifeCall("destroy", "encoder", MUX_OK, r.m,
                                l_inst.inst.codec_type,
                                l_inst.inst.num_streams)
    /\ UNCHANGED <<build, mpg123_inited, not_life_vars>>

DecoderInit(codec_type, num_streams, fail_at) ==
    /\ l_inst.storage = "none"
          \/ (l_inst.storage = "static" /\ l_inst.kind = "decoder"
              /\ ~l_inst.live)
    /\ LET d == IF l_inst.storage = "none" THEN ZeroDecoder ELSE l_inst.inst
           x == life_decoder_init(build, Machine(heap, fail_at), d, codec_type,
                                  num_streams, mpg123_inited)
       IN /\ heap' = x.r.m.heap
          /\ mpg123_inited' = x.inited
          /\ l_inst' = [kind |-> "decoder", storage |-> "static",
                        self |-> NULL, inst |-> x.r.inst,
                        live |-> x.r.ret = MUX_OK]
          /\ l_last' = LifeCall("init", "decoder", x.r.ret, x.r.m, codec_type,
                                num_streams)
    /\ UNCHANGED <<build, not_life_vars>>

DecoderNew(codec_type, num_streams, fail_at) ==
    /\ l_inst.storage = "none"
    /\ LET y == life_decoder_new(build, Machine(heap, fail_at), codec_type,
                                 num_streams, mpg123_inited)
       IN /\ heap' = y.x.m.heap
          /\ mpg123_inited' = y.inited
          /\ l_inst' = IF y.x.self = NULL THEN NoInstance
                       ELSE [kind |-> "decoder", storage |-> "dynamic",
                             self |-> y.x.self, inst |-> y.x.inst,
                             live |-> TRUE]
          /\ l_last' = LifeCall("new", "decoder", y.x.ret, y.x.m, codec_type,
                                num_streams)
    /\ UNCHANGED <<build, not_life_vars>>

DecoderDeinit ==
    /\ l_inst.storage # "none" /\ l_inst.kind = "decoder"
    /\ LET r == life_decoder_deinit(build, Machine(heap, 0), l_inst.inst)
       IN /\ heap' = r.m.heap
          /\ l_inst' = [l_inst EXCEPT !.inst = r.inst, !.live = FALSE]
          /\ l_last' = LifeCall("deinit", "decoder", MUX_OK, r.m,
                                l_inst.inst.codec_type,
                                l_inst.inst.num_streams)
    /\ UNCHANGED <<build, mpg123_inited, not_life_vars>>

DecoderDestroy ==
    /\ l_inst.storage = "dynamic" /\ l_inst.kind = "decoder"
    /\ LET r == life_decoder_destroy(build, Machine(heap, 0), l_inst.inst,
                                     l_inst.self)
       IN /\ heap' = r.m.heap
          /\ l_inst' = NoInstance
          /\ l_last' = LifeCall("destroy", "decoder", MUX_OK, r.m,
                                l_inst.inst.codec_type,
                                l_inst.inst.num_streams)
    /\ UNCHANGED <<build, mpg123_inited, not_life_vars>>

\* a facade that trusts the operation table of any instance
OpsMissing_Never(ops) == FALSE

\* !enc->ops, !dec->ops
OpsMissing(ops) == ops = NullOps

\* mux_encoder_encode, mux_encoder_read, mux_encoder_finalize,
\* mux_decoder_decode, mux_decoder_read, mux_decoder_finalize on a non-NULL
\* instance: the tests before the call through the operation table; a
\* missing finalize entry is "optional" and gives MUX_OK
facade_call(b, m, ops, op) ==
    IF OpsMissing(ops)
    THEN [m |-> m, ret |-> MUX_ERROR_INVAL]
    ELSE IF ~HasOp(b, ops, op)
    THEN [m |-> m,
          ret |-> IF op \in {"encoder_finalize", "decoder_finalize"}
                  THEN MUX_OK ELSE MUX_ERROR_INVAL]
    ELSE [m |-> op_call(b, m, ops, op), ret |-> MUX_OK]

\* the facade operations of an encoder and of a decoder
FacadeOps(kind) ==
    IF kind = "decoder"
    THEN {"decoder_decode", "decoder_read", "decoder_finalize"}
    ELSE {"encoder_encode", "encoder_read", "encoder_finalize"}

\* a facade operation on an instance that is all zero: never initialised,
\* or after mux_encoder_deinit / mux_decoder_deinit (the calls on a
\* constructed instance are EncoderUse and DecoderUse)
FacadeCall(op) ==
    /\ ~l_inst.live /\ l_inst.storage # "dynamic"
    /\ l_inst.inst \in {ZeroEncoder, ZeroDecoder}
    /\ op \in FacadeOps(l_inst.kind)
    /\ LET r == facade_call(build, Machine(heap, 0), l_inst.inst.ops, op)
       IN /\ heap' = r.m.heap
          /\ l_last' = LifeCall(op, l_inst.kind, r.ret, r.m,
                                l_inst.inst.codec_type,
                                l_inst.inst.num_streams)
    /\ UNCHANGED <<build, mpg123_inited, l_inst, not_life_vars>>

\* mux_encoder_encode / mux_encoder_finalize on a constructed encoder, seen
\* from the heap: the adapter appends to enc->output, which may have to grow
EncoderUse(grow, fail_at) ==
    /\ l_inst.live /\ l_inst.kind = "encoder"
    /\ LET r == IF grow
                THEN life_buffer_grow(Machine(heap, fail_at), l_inst.inst.output)
                ELSE [m |-> Machine(heap, fail_at),
                      data |-> l_inst.inst.output, ret |-> MUX_OK]
       IN /\ heap' = r.m.heap
          /\ l_inst' = [l_inst EXCEPT !.inst.output = r.data]
          /\ l_last' = LifeCall("use", "encoder", r.ret, r.m,
                                l_inst.inst.codec_type,
                                l_inst.inst.num_streams)
    /\ UNCHANGED <<build, mpg123_inited, not_life_vars>>

\* mux_decoder_decode on a constructed decoder, seen from the heap: the
\* adapter appends to its input buffer and to one of the output buffers
DecoderUse(which, fail_at) ==
    /\ l_inst.live /\ l_inst.kind = "decoder"
    /\ LET d == l_inst.inst
           r == life_buffer_grow(Machine(heap, fail_at),
                                 CASE which = "input_buf" -> d.data.input_buf
                                   [] which = "audio_output" -> d.audio_output
                                   [] OTHER -> d.side_output)
       IN /\ heap' = r.m.heap
          /\ l_inst' =
                CASE which = "input_buf" ->
                        [l_inst EXCEPT !.inst.data.input_buf = r.data]
                  [] which = "audio_output" ->
                        [l_inst EXCEPT !.inst.audio_output = r.data]
                  [] OTHER -> [l_inst EXCEPT !.inst.side_output = r.data]
          /\ l_last' = LifeCall("use", "decoder", r.ret, r.m,
                                d.codec_type, d.num_streams)
    /\ UNCHANGED <<build, mpg123_inited, not_life_vars>>

LifeNext ==
    \/ \E c \in CodecTypes, fmt \in AudioFormats,
          n \in StreamCounts, f \in FailPoints :
          \/ EncoderInit(c, fmt[1], fmt[2], n, f)
          \/ EncoderNew(c, fmt[1], fmt[2], n, f)
    \/ EncoderDeinit
    \/ EncoderDestroy
    \/ \E c \in CodecTypes, n \in StreamCounts, f \in FailPoints :
          DecoderInit(c, n, f) \/ DecoderNew(c, n, f)
    \/ DecoderDeinit
    \/ DecoderDestroy
    \/ \E grow \in BOOLEAN, f \in {0, 1} : EncoderUse(grow, f)
    \/ \E which \in {"input_buf", "audio_output", "side_output"},
          f \in {0, 1} : DecoderUse(which, f)
    \/ \E op \in FacadeOps("encoder") \cup FacadeOps("decoder") :
          FacadeCall(op)

SpecLife == LifeInit /\ [][LifeNext]_vars

(***************************************************************************)
(* SpecUse: a caller using one constructed A-law or mu-law encoder and     *)
(* decoder through the facade: encode, finalize, read, decode with the     *)
(* bytes of its choice, clear_error                                        *)
(***************************************************************************)
UseCodecs == {"alaw", "mulaw"}

\* ten bytes with the continuation bit set: a header that runs past 64 bits
MalformedHeader == <<128, 128, 128, 128, 128, 128, 128, 128, 128, 128>>

\* bytes handed to decoder_decode: a malformed header, an audio frame, a
\* side frame (as dual-stream frames), the first byte of a two-byte header
DecodeInputs == {MalformedHeader, <<2, 85>>, <<3, 7>>, <<128>>}

\* output_size of the read calls
UseReadSizes == {4096}

\* alaw_encoder_finalize / alaw_decoder_finalize (and the mu-law ones)
\* behind mux_encoder_finalize / mux_decoder_finalize: no state, MUX_OK
adapter_finalize(inst) == [ret |-> MUX_OK, inst |-> inst]

UseInit ==
    /\ LebIdle
    /\ FrameIdle
    /\ LifeIdle
    /\ UseIdle
    /\ AmrIdle
    /\ MemIdle
    /\ ThrIdle
    /\ SampIdle
    /\ BufIdle
    /\ SubIdle
    /\ LoopIdle
    /\ codec \in UseCodecs
    /\ \E n \in {1, 2} :
          /\ enc = mux_encoder_init(n)
          /\ dec = mux_decoder_init(n)
    /\ encoded = << >>
    /\ wire = << >>
    /\ fed = << >>
    /\ out_audio = << >>
    /\ out_side = << >>
    /\ last = NoCall

UseCall(op, who, ret, input) ==
    [op |-> op, who |-> who, ret |-> ret, input |-> input,
     fin |-> u_fin[who], pre_enc |-> enc, pre_dec |-> dec, pre_err |-> u_err]

\* what the caller of mux_encoder_encode sees: the return value and
\* *input_consumed
UseEncodeCall(r, input, stream_type) ==
    [op |-> "encode", who |-> "enc", ret |-> r.ret, input |-> input,
     fin |-> u_fin.enc, pre_enc |-> enc, pre_dec |-> dec, pre_err |-> u_err,
     consumed |-> r.consumed, stream |-> stream_type]

\* mux_encoder_encode; the adapters never call mux_encoder_set_error
UseEncode(input, stream_type) ==
    /\ u_calls < MaxCalls
    /\ LET r == encoder_encode(codec, enc, input, stream_type,
                               [i \in 1..ArgPeriod |-> enc.num_streams])
       IN /\ enc' = r.enc
          /\ last' = UseEncodeCall(r, input, stream_type)
    /\ u_calls' = u_calls + 1
    /\ UNCHANGED <<codec, dec, encoded, wire, fed, out_audio, out_side,
                   u_fin, u_err, not_use_vars>>

\* mux_encoder_read
UseEncoderRead(output_size) ==
    /\ LET r == encoder_read(enc, output_size)
       IN /\ enc' = r.enc
          /\ last' = UseCall("read", "enc", r.ret, << >>)
    /\ UNCHANGED <<codec, dec, encoded, wire, fed, out_audio, out_side,
                   use_vars, not_use_vars>>

\* mux_encoder_finalize
UseEncoderFinalize ==
    /\ LET r == adapter_finalize(enc)
       IN /\ enc' = r.inst
          /\ last' = UseCall("finalize", "enc", r.ret, << >>)
    /\ u_fin' = [u_fin EXCEPT !.enc = TRUE]
    /\ UNCHANGED <<codec, dec, encoded, wire, fed, out_audio, out_side,
                   u_err, u_calls, not_use_vars>>

\* mux_decoder_decode; the adapters never call mux_decoder_set_error
UseDecode(input) ==
    /\ u_calls < MaxCalls
    /\ \E undef \in FrameSizeOutcomes :
          LET r == decoder_decode(codec, dec, input,
                                  [i \in 1..ArgPeriod |-> dec.num_streams],
                                  undef)
          IN /\ dec' = r.dec
             /\ last' = UseCall("decode", "dec", r.ret, input)
    /\ u_calls' = u_calls + 1
    /\ UNCHANGED <<codec, enc, encoded, wire, fed, out_audio, out_side,
                   u_fin, u_err, not_use_vars>>

\* mux_decoder_read
UseDecoderRead(output_size) ==
    /\ LET r == decoder_read(dec, output_size)
       IN /\ dec' = r.dec
          /\ last' = UseCall("read", "dec", r.ret, << >>)
    /\ UNCHANGED <<codec, enc, encoded, wire, fed, out_audio, out_side,
                   use_vars, not_use_vars>>

\* mux_decoder_finalize
UseDecoderFinalize ==
    /\ LET r == adapter_finalize(dec)
       IN /\ dec' = r.inst
          /\ last' = UseCall("finalize", "dec", r.ret, << >>)
    /\ u_fin' = [u_fin EXCEPT !.dec = TRUE]
    /\ UNCHANGED <<codec, enc, encoded, wire, fed, out_audio, out_side,
                   u_err, u_calls, not_use_vars>>

\* mux_encoder_clear_error / mux_decoder_clear_error
UseClearError(who) ==
    /\ u_err' = [u_err EXCEPT ![who] = MUX_OK]
    /\ last' = UseCall("clear_error", who, MUX_OK, << >>)
    /\ UNCHANGED <<codec, enc, dec, encoded, wire, fed, out_audio, out_side,
                   u_fin, u_calls, not_use_vars>>

UseNext ==
    \/ \E st \in StreamTypes : \E input \in Payloads(codec, st) :
          UseEncode(input, st)
    \/ \E n \in UseReadSizes : UseEncoderRead(n)
    \/ UseEncoderFinalize
    \/ \E input \in DecodeInputs : UseDecode(input)
    \/ \E n \in UseReadSizes : UseDecoderRead(n)
    \/ UseDecoderFinalize
    \/ \E who \in {"enc", "dec"} : UseClearError(who)

SpecUse == UseInit /\ [][UseNext]_vars

(***************************************************************************)
(* SpecAmr: a caller using one constructed AMR-NB encoder: audio and       *)
(* side-channel encode calls, read, finalize, clear_error; the native      *)
(* encoder may fail                                                        *)
(***************************************************************************)
Samples(n, v) == [i \in 1..n |-> v]

\* audio inputs: the int16 samples and input_size in bytes (3 bytes carry
\* one sample and an odd byte)
AmrAudioInputs ==
    {[samples |-> Samples(1, 1), size |-> 3],
     [samples |-> Samples(159, 2), size |-> 318],
     [samples |-> Samples(161, 2), size |-> 322]}

AmrSideInputs == {<<7>>}

\* which native call of an operation fails (0: none)
AmrFailPoints == {0, 1}

AmrInit ==
    /\ LebIdle
    /\ FrameIdle
    /\ CodecIdle
    /\ LifeIdle
    /\ UseIdle
    /\ MemIdle
    /\ ThrIdle
    /\ SampIdle
    /\ BufIdle
    /\ SubIdle
    /\ LoopIdle
    /\ a_enc \in {AmrEncoder(n) : n \in {1, 2}}
    /\ a_stream = << >>
    /\ a_native = << >>
    /\ a_last = NoCall
    /\ a_fin = FALSE
    /\ a_calls = 0

AmrCall(op, r) ==
    [op |-> op, ret |-> r.ret, native |-> r.native, pre |-> a_enc,
     fin |-> a_fin]

\* mux_encoder_encode(enc, samples, size, &consumed, MUX_STREAM_AUDIO)
AmrEncodeAudio(input, fail_at) ==
    /\ a_calls < MaxCalls
    /\ LET r == amr_encoder_encode(a_enc, input.samples, input.size,
                                   MUX_STREAM_AUDIO, fail_at)
       IN /\ a_enc' = r.enc
          /\ a_native' = a_native \o r.native
          /\ a_last' = AmrCall("encode", r)
    /\ a_stream' = a_stream \o input.samples
    /\ a_calls' = a_calls + 1
    /\ UNCHANGED <<a_fin, not_amr_vars>>

\* mux_encoder_encode(enc, bytes, size, &consumed, MUX_STREAM_SIDE_CHANNEL)
AmrEncodeSide(input) ==
    /\ a_calls < MaxCalls
    /\ LET r == amr_encoder_encode(a_enc, input, Len(input),
                                   MUX_STREAM_SIDE_CHANNEL, 0)
       IN /\ a_enc' = r.enc
          /\ a_last' = AmrCall("encode_side", r)
    /\ a_calls' = a_calls + 1
    /\ UNCHANGED <<a_stream, a_native, a_fin, not_amr_vars>>

\* mux_encoder_read
AmrRead(output_size) ==
    /\ LET r == amr_encoder_read(a_enc, output_size)
       IN /\ a_enc' = r.enc
          /\ a_last' = AmrCall("read", [ret |-> r.ret, native |-> << >>])
    /\ UNCHANGED <<a_stream, a_native, a_fin, a_calls, not_amr_vars>>

\* mux_encoder_finalize
AmrFinalize(ok) ==
    /\ LET r == amr_encoder_finalize(a_enc, ok)
       IN /\ a_enc' = r.enc
          /\ a_native' = a_native \o r.native
          /\ a_last' = AmrCall("finalize", r)
    /\ a_fin' = TRUE
    /\ UNCHANGED <<a_stream, a_calls, not_amr_vars>>

\* mux_encoder_clear_error
AmrClearError ==
    /\ a_enc' = clear_error(a_enc)
    /\ a_last' = AmrCall("clear_error", [ret |-> MUX_OK, native |-> << >>])
    /\ UNCHANGED <<a_stream, a_native, a_fin, a_calls, not_amr_vars>>

AmrNext ==
    \/ \E input \in AmrAudioInputs, fail_at \in AmrFailPoints :
          AmrEncodeAudio(input, fail_at)
    \/ \E input \in AmrSideInputs : AmrEncodeSide(input)
    \/ \E n \in UseReadSizes : AmrRead(n)
    \/ \E ok \in BOOLEAN : AmrFinalize(ok)
    \/ AmrClearError

SpecAmr == AmrInit /\ [][AmrNext]_vars

(***************************************************************************)
(* SpecMem: frames and bytes written to an encoder's output buffer while   *)
(* realloc may fail                                                        *)
(***************************************************************************)
\* payloads of 1, 2 and OutputBufInit - 3 bytes: the last one and its
\* two-byte header leave one free byte in a fresh buffer
MemPayloads ==
    {<<7>>, <<7, 9>>, [i \in 1..(OutputBufInit - 3) |-> 0]}

\* which realloc of an operation fails (0: none)
MemFailPoints == {0, 1, 2}

MemInit ==
    /\ LebIdle
    /\ FrameIdle
    /\ CodecIdle
    /\ LifeIdle
    /\ UseIdle
    /\ AmrIdle
    /\ ThrIdle
    /\ SampIdle
    /\ BufIdle
    /\ SubIdle
    /\ LoopIdle
    /\ m_out = mux_buffer_init(OutputBufInit)
    /\ m_num_streams \in {1, 2}
    /\ m_last = NoCall
    /\ m_calls = 0

MemCall(op, r) ==
    [op |-> op, ret |-> r.ret, pre |-> m_out,
     failed |-> r.a.fail_at # 0 /\ r.a.step >= r.a.fail_at]

\* mux_leb128_write_frame(&enc->output, payload, size, stream_type,
\* enc->num_streams)
MemWriteFrame(payload, stream_type, fail_at) ==
    /\ m_calls < MaxCalls
    /\ LET r == mem_write_frame(m_out, payload, stream_type, m_num_streams,
                                Reallocs(fail_at))
       IN /\ m_out' = r.buf
          /\ m_last' = MemCall("write_frame", r)
    /\ m_calls' = m_calls + 1
    /\ UNCHANGED <<m_num_streams, not_mem_vars>>

\* mux_buffer_write(&enc->output, bytes, size)
MemBufferWrite(bytes, fail_at) ==
    /\ m_calls < MaxCalls
    /\ LET r == mem_buffer_write(m_out, bytes, Reallocs(fail_at))
       IN /\ m_out' = r.buf
          /\ m_last' = MemCall("buffer_write", r)
    /\ m_calls' = m_calls + 1
    /\ UNCHANGED <<m_num_streams, not_mem_vars>>

\* mux_buffer_read(&enc->output, output, output_size, &bytes_read)
MemRead(output_size) ==
    /\ LET r == mux_buffer_read(m_out, output_size)
       IN /\ m_out' = r.buf
          /\ m_last' = [op |-> "read", ret |-> r.ret, pre |-> m_out,
                        failed |-> FALSE]
    /\ UNCHANGED <<m_num_streams, m_calls, not_mem_vars>>

MemNext ==
    \/ \E payload \in MemPayloads, st \in StreamTypes,
          fail_at \in MemFailPoints : MemWriteFrame(payload, st, fail_at)
    \/ \E bytes \in MemPayloads, fail_at \in MemFailPoints :
          MemBufferWrite(bytes, fail_at)
    \/ \E n \in UseReadSizes : MemRead(n)

SpecMem == MemInit /\ [][MemNext]_vars

(***************************************************************************)
(* SpecBuf: one input buffer under every operation that moves its          *)
(* positions (src/buffer.c, mux_leb128_read_frame, the passthrough branch  *)
(* of amr_decoder_decode), with the audio buffer that branch writes to     *)
(***************************************************************************)
\* frame_sizes[(mode_byte >> 3) & 0x0F]
amr_get_frame_size(mode_byte) ==
    <<13, 14, 16, 18, 20, 21, 27, 32, 6, 0, 0, 0, 0, 0, 0, 1>>
        [((mode_byte \div 8) % 16) + 1]

\* a decoder that takes a frame it has only the start of
AmrFrameComplete_Always(available, amr_frame_size) == TRUE

\* if (available < (size_t)amr_frame_size) break;
AmrFrameComplete(available, amr_frame_size) == available >= amr_frame_size

\* "Reset buffer if fully read" and return MUX_OK
amr_passthrough_done(input_buf, audio) ==
    [ret |-> MUX_OK, input_buf |-> ResetIfDrained(input_buf), audio |-> audio]

\* the loop of the passthrough branch; pcm_out is what the native decoder
\* stored, one frame of samples
RECURSIVE amr_passthrough_loop(_, _)
amr_passthrough_frame(input_buf, audio, available, amr_frame_size) ==
    IF amr_frame_size <= 0
    THEN [ret |-> MUX_ERROR_DECODE, input_buf |-> input_buf, audio |-> audio]
    ELSE IF ~AmrFrameComplete(available, amr_frame_size)
    THEN amr_passthrough_done(input_buf, audio)
    ELSE amr_passthrough_loop(
             [input_buf EXCEPT !.read_pos = @ + amr_frame_size],
             mux_buffer_write(audio, AmrZeroBuf \o AmrZeroBuf))

amr_passthrough_loop(input_buf, audio) ==
    IF input_buf.size - input_buf.read_pos > 0
    THEN amr_passthrough_frame(input_buf, audio,
                               input_buf.size - input_buf.read_pos,
                               amr_get_frame_size(input_buf.data[input_buf.read_pos + 1]))
    ELSE amr_passthrough_done(input_buf, audio)

\* amr_decoder_decode with num_streams == 1
amr_decoder_passthrough(input_buf, audio, input) ==
    amr_passthrough_loop(mux_buffer_write(input_buf, input), audio)

\* n bytes that differ from their neighbours
Ramp(n) == [i \in 1..n |-> i % 256]

\* bytes written to the buffer: a dual-stream frame, a one-byte AMR frame,
\* the start of an AMR frame, and two runs longer than the smaller buffer
BufInputs == {<<2, 85>>, <<120>>, <<64, 1, 2>>,
              Ramp(SideBufInit + 1), Ramp(SideBufInit + (SideBufInit \div 2) + 1)}

\* bytes handed to the AMR decoder: a whole frame, the start of one, the
\* rest of it, a reserved frame type
BufAmrInputs == {<<120>>, <<64, 1, 2>>, <<3, 4, 5>>, <<72>>}

BufReadSizes == {0, 1, 2, 4096}

BufFrameSizes == {2, FrameBufCapacity}

BufCapacities == {SideBufInit, InputBufInit}

BufInit ==
    /\ LebIdle
    /\ FrameIdle
    /\ CodecIdle
    /\ LifeIdle
    /\ UseIdle
    /\ AmrIdle
    /\ MemIdle
    /\ ThrIdle
    /\ SampIdle
    /\ SubIdle
    /\ LoopIdle
    /\ b_init \in BufCapacities
    /\ b_buf = mux_buffer_init(b_init)
    /\ b_audio = mux_buffer_init(AudioBufInit)
    /\ b_peak = 0
    /\ b_ops = 0
    /\ b_last = NoCall

BufCall(op, ret, size, bytes) ==
    [op |-> op, ret |-> ret, size |-> size, bytes |-> bytes, pre |-> b_buf]

\* the buffer after an operation; b_peak is the most bytes it has held
BufStep(buf) ==
    /\ b_ops < MaxOps
    /\ b_ops' = b_ops + 1
    /\ b_buf' = buf
    /\ b_peak' = IF buf.size > b_peak THEN buf.size ELSE b_peak
    /\ UNCHANGED <<b_init, not_buf_vars>>

BufWrite(bytes) ==
    /\ BufStep(mux_buffer_write(b_buf, bytes))
    /\ b_last' = BufCall("write", MUX_OK, Len(bytes), bytes)
    /\ UNCHANGED b_audio

BufRead(size) ==
    /\ LET r == mux_buffer_read(b_buf, size)
       IN /\ BufStep(r.buf)
          /\ b_last' = BufCall("read", r.ret, size, r.bytes)
    /\ UNCHANGED b_audio

BufClear ==
    /\ BufStep(mux_buffer_clear(b_buf))
    /\ b_last' = BufCall("clear", MUX_OK, 0, << >>)
    /\ UNCHANGED b_audio

BufReadFrame(payload_capacity, num_streams) ==
    /\ LET r == mux_leb128_read_frame(b_buf, payload_capacity, num_streams)
       IN /\ BufStep(r.buf)
          /\ b_last' = BufCall("read_frame", r.ret, payload_capacity, r.payload)
    /\ UNCHANGED b_audio

BufAmrDecode(input) ==
    /\ LET r == amr_decoder_passthrough(b_buf, b_audio, input)
       IN /\ BufStep(r.input_buf)
          /\ b_audio' = r.audio
          /\ b_last' = BufCall("amr_decode", r.ret, Len(input), input)

BufNext ==
    \/ \E bytes \in BufInputs : BufWrite(bytes)
    \/ \E size \in BufReadSizes : BufRead(size)
    \/ BufClear
    \/ \E c \in BufFrameSizes, n \in {1, 2} : BufReadFrame(c, n)
    \/ \E input \in BufAmrInputs : BufAmrDecode(input)

SpecBuf == BufInit /\ [][BufNext]_vars

(* ---- one sample through a compander and back ---- *)
\* (src/codec_alaw.c, src/codec_mulaw.c: the per-sample functions)
\* every int16_t
Int16 == (0 - Pow2(15))..(Pow2(15) - 1)

SampCodecs == {"alaw", "mulaw"}

SampInit ==
    /\ LebIdle
    /\ FrameIdle
    /\ CodecIdle
    /\ LifeIdle
    /\ UseIdle
    /\ AmrIdle
    /\ MemIdle
    /\ ThrIdle
    /\ BufIdle
    /\ SubIdle
    /\ LoopIdle
    /\ s_pcm \in Int16
    /\ s_codec = "none"
    /\ s_code = 0
    /\ s_back = 0

\* out[i] = alaw_encode_sample(in[i]) in the encoder,
\* out[i] = alaw_decode_sample(in[i]) in the decoder (mu-law alike)
SampCompand(c, code) ==
    /\ s_codec = "none"
    /\ s_codec' = c
    /\ s_code' = code
    /\ s_back' = DecodeSample(c, code)
    /\ UNCHANGED <<s_pcm, not_samp_vars>>

SampNext ==
    \E c \in SampCodecs : SampCompand(c, EncodeSample(c, s_pcm))

SpecSamp == SampInit /\ [][SampNext]_vars

(* ---- two threads, each constructing its own decoder ---- *)
\* (src/core.c mux_decoder_init, src/codec_mp3.c mp3_decoder_init line by
\* line; t_inited is the function-static mpg123_inited, t_own[t] tells
\* whether thread t itself has stored to it)
Threads == {"X", "Y"}

ThrCodecs == {"mp3", "alaw"}

ThrInit ==
    /\ LebIdle
    /\ FrameIdle
    /\ CodecIdle
    /\ LifeIdle
    /\ UseIdle
    /\ AmrIdle
    /\ MemIdle
    /\ ThrIdle
    /\ SampIdle
    /\ BufIdle
    /\ SubIdle
    /\ LoopIdle

\* another thread is at the store to the static: a read now is unordered
\* with that write
Racing(t) == \E u \in Threads \ {t} : t_pc[u] = "store"

\* mux_decoder_init up to ops->decoder_init: the instance is the thread's own
ThrBegin(t, c) ==
    /\ t_pc[t] = "idle"
    /\ t_n[t] < MaxCalls
    /\ t_n' = [t_n EXCEPT ![t] = @ + 1]
    /\ t_codec' = [t_codec EXCEPT ![t] = c]
    /\ t_pc' = [t_pc EXCEPT ![t] = IF c = "mp3" THEN "check" ELSE "alloc"]
    /\ UNCHANGED <<t_own, t_ret, t_inited, not_thr_vars>>

\* if (!mpg123_inited): a plain read of the static; unordered with a
\* concurrent store it yields either value
ThrCheck(t) ==
    /\ t_pc[t] = "check"
    /\ \E v \in (IF Racing(t) THEN BOOLEAN ELSE {t_inited}) :
          t_pc' = [t_pc EXCEPT ![t] = IF v THEN "alloc" ELSE "lib"]
    /\ UNCHANGED <<t_codec, t_n, t_own, t_ret, t_inited, not_thr_vars>>

\* mpg123_init() != MPG123_OK: set_error, return MUX_ERROR_INIT
ThrLibrary(t, ok) ==
    /\ t_pc[t] = "lib"
    /\ t_pc' = [t_pc EXCEPT ![t] = IF ok THEN "store" ELSE "done"]
    /\ t_ret' = [t_ret EXCEPT ![t] = IF ok THEN @ ELSE MUX_ERROR_INIT]
    /\ UNCHANGED <<t_codec, t_n, t_own, t_inited, not_thr_vars>>

\* mpg123_inited = 1
ThrStore(t) ==
    /\ t_pc[t] = "store"
    /\ t_inited' = TRUE
    /\ t_own' = [t_own EXCEPT ![t] = TRUE]
    /\ t_pc' = [t_pc EXCEPT ![t] = "alloc"]
    /\ UNCHANGED <<t_codec, t_n, t_ret, not_thr_vars>>

\* calloc, native handle, input buffer: all owned by the instance
ThrAlloc(t, ok) ==
    /\ t_pc[t] = "alloc"
    /\ t_pc' = [t_pc EXCEPT ![t] = "done"]
    /\ t_ret' = [t_ret EXCEPT ![t] = IF ok THEN MUX_OK ELSE MUX_ERROR_NOMEM]
    /\ UNCHANGED <<t_codec, t_n, t_own, t_inited, not_thr_vars>>

\* mux_decoder_deinit: the static stays set
ThrDeinit(t) ==
    /\ t_pc[t] = "done"
    /\ t_pc' = [t_pc EXCEPT ![t] = "idle"]
    /\ t_ret' = [t_ret EXCEPT ![t] = MUX_OK]
    /\ UNCHANGED <<t_codec, t_n, t_own, t_inited, not_thr_vars>>

ThrNext ==
    \/ \E t \in Threads, c \in ThrCodecs : ThrBegin(t, c)
    \/ \E t \in Threads : ThrCheck(t)
    \/ \E t \in Threads, ok \in BOOLEAN : ThrLibrary(t, ok)
    \/ \E t \in Threads : ThrStore(t)
    \/ \E t \in Threads, ok \in BOOLEAN : ThrAlloc(t, ok)
    \/ \E t \in Threads : ThrDeinit(t)

SpecThr == ThrInit /\ [][ThrNext]_vars

(***************************************************************************)
(* SpecCtor: a caller constructing AMR-NB, AMR-WB and A-law encoders with  *)
(* the formats of its choice, and calling mux_encoder_init again on an     *)
(* instance it already holds                                               *)
(***************************************************************************)
\* AMR-WB is built with or without the encoder library
CtorBuilds ==
    { {"HAVE_AMR", "HAVE_AMR_WB", "HAVE_AMR_WB_ENCODE"},
      {"HAVE_AMR", "HAVE_AMR_WB"} }

CtorCodecs == {MUX_CODEC_ALAW, MUX_CODEC_AMR, MUX_CODEC_AMR_WB}

\* <<sample_rate, num_channels>>
CtorFormats ==
    {<<AMR_SAMPLE_RATE, 1>>, <<AMR_WB_SAMPLE_RATE, 1>>,
     <<AMR_WB_SAMPLE_RATE, 2>>, <<44100, 1>>}

CtorStreamCounts == {0, 2}

\* which fallible call of a construction fails (0: none)
CtorFailPoints == {0, 2}

CtorInitState ==
    /\ LebIdle
    /\ FrameIdle
    /\ CodecIdle
    /\ UseIdle
    /\ AmrIdle
    /\ MemIdle
    /\ ThrIdle
    /\ SampIdle
    /\ BufIdle
    /\ SubIdle
    /\ LoopIdle
    /\ build \in CtorBuilds
    /\ heap = {}
    /\ mpg123_inited = FALSE
    /\ l_inst = NoInstance
    /\ l_last = NoCall

CtorCall(op, r, codec_type, sample_rate, num_channels, num_streams) ==
    [op |-> op, kind |-> "encoder", ret |-> r.ret, trace |-> r.m.trace,
     codec_type |-> codec_type, num_streams |-> num_streams,
     sample_rate |-> sample_rate, num_channels |-> num_channels,
     fail_at |-> r.m.fail_at, pre_heap |-> heap, pre |-> l_inst]

\* mux_encoder_init on storage the caller owns: zeroed storage, an instance
\* that was deinitialised, or one that is still initialised
CtorInit(codec_type, sample_rate, num_channels, num_streams, fail_at) ==
    /\ l_inst.storage = "none" \/ l_inst.kind = "encoder"
    /\ Cardinality(heap) < MaxHeap
    /\ LET e == IF l_inst.storage = "none" THEN ZeroEncoder ELSE l_inst.inst
           r == life_encoder_init(build, Machine(heap, fail_at), e, codec_type,
                                  sample_rate, num_channels, num_streams)
       IN /\ heap' = r.m.heap
          /\ l_inst' = [kind |-> "encoder",
                        storage |-> IF l_inst.storage = "none" THEN "static"
                                    ELSE l_inst.storage,
                        self |-> l_inst.self, inst |-> r.inst,
                        live |-> IF r.inst = e THEN l_inst.live
                                 ELSE r.ret = MUX_OK]
          /\ l_last' = CtorCall("init", r, codec_type, sample_rate,
                                num_channels, num_streams)
    /\ UNCHANGED <<build, mpg123_inited, not_life_vars>>

\* mux_encoder_new
CtorNew(codec_type, sample_rate, num_channels, num_streams, fail_at) ==
    /\ l_inst.storage = "none"
    /\ Cardinality(heap) < MaxHeap
    /\ LET r == life_encoder_new(build, Machine(heap, fail_at), codec_type,
                                 sample_rate, num_channels, num_streams)
       IN /\ heap' = r.m.heap
          /\ l_inst' = IF r.self = NULL THEN NoInstance
                       ELSE [kind |-> "encoder", storage |-> "dynamic",
                             self |-> r.self, inst |-> r.inst, live |-> TRUE]
          /\ l_last' = CtorCall("new", r, codec_type, sample_rate,
                                num_channels, num_streams)
    /\ UNCHANGED <<build, mpg123_inited, not_life_vars>>

CtorNext ==
    \/ \E c \in CtorCodecs, fmt \in CtorFormats,
          n \in CtorStreamCounts, f \in CtorFailPoints :
          \/ CtorInit(c, fmt[1], fmt[2], n, f)
          \/ CtorNew(c, fmt[1], fmt[2], n, f)
    \/ EncoderDeinit
    \/ EncoderDestroy

SpecCtor == CtorInitState /\ [][CtorNext]_vars

(***************************************************************************)
(* SpecSubmit: a caller handing one input to an A-law or mu-law encoder    *)
(* and, after each MUX_OK, handing in again what input_consumed left over  *)
(* (mux_encoder_encode reports the bytes it took in *input_consumed)       *)
(***************************************************************************)
\* stream_type is an int: the two enumerators and one value outside them
SubmitStreams == {MUX_STREAM_AUDIO, MUX_STREAM_SIDE_CHANNEL, 2}

\* the inputs: every sequence of 1..MaxInput bytes over two byte values
SubmitInputs == UNION {[1..n -> {0, 200}] : n \in 1..MaxInput}

SubmitInit ==
    /\ LebIdle
    /\ FrameIdle
    /\ CodecIdle
    /\ LifeIdle
    /\ UseIdle
    /\ AmrIdle
    /\ MemIdle
    /\ ThrIdle
    /\ SampIdle
    /\ BufIdle
    /\ LoopIdle
    /\ p_codec \in UseCodecs
    /\ \E n \in {1, 2} : p_enc = mux_encoder_init(n)
    /\ p_stream \in SubmitStreams
    /\ p_rest \in SubmitInputs
    /\ p_last = NoCall

\* what is left of the input after a call that returned ret and consumed
Remainder(input, ret, consumed) ==
    IF ret = MUX_OK THEN SubSeq(input, consumed + 1, Len(input)) ELSE input

SubmitCall(r, input) ==
    [op |-> "encode", ret |-> r.ret, consumed |-> r.consumed,
     input |-> input, pre_size |-> p_enc.output.size]

\* mux_encoder_encode(enc, rest, size, &consumed, stream_type) while bytes
\* remain
Submit ==
    /\ p_rest # << >>
    /\ LET r == encoder_encode(p_codec, p_enc, p_rest, p_stream,
                               [i \in 1..ArgPeriod |-> p_enc.num_streams])
       IN /\ p_enc' = r.enc
          /\ p_rest' = Remainder(p_rest, r.ret, r.consumed)
          /\ p_last' = SubmitCall(r, p_rest)
    /\ UNCHANGED <<p_codec, p_stream, not_sub_vars>>

SubmitNext == Submit

SpecSubmit == SubmitInit /\ [][SubmitNext]_vars

(***************************************************************************)
(* SpecLoop: the frame loop of decoder_decode, one action per iteration:   *)
(* the call appends its input and enters the loop, each iteration reads    *)
(* one frame (growing frame_buf and reading again when the frame does not  *)
(* fit), routes it and goes round, or returns                              *)
(***************************************************************************)
\* a side frame whose payload is one byte longer than frame_buf
OversizedFrame ==
    mux_leb128_encode(FrameHeaderValue(FrameBufCapacity + 1,
                                       MUX_STREAM_SIDE_CHANNEL), 10).bytes
    \o Ramp(FrameBufCapacity + 1)

\* bytes handed to decoder_decode: an audio frame, a side frame followed by
\* an empty audio frame, a frame without its last byte, a malformed header,
\* and a frame larger than frame_buf for the decoders that copy its bytes
\* (PCM, which takes them as one frame or as raw audio, and the dual-stream
\* A-law and mu-law decoders)
LoopInputs(c, num_streams) ==
    {<<4, 0, 128>>, <<3, 7, 0>>, <<4, 0>>, MalformedHeader}
    \cup IF c = "pcm" \/ num_streams = 2 THEN {OversizedFrame} ELSE {}

\* the values read_frame can receive as num_streams
LoopStreams(c, num_streams) ==
    IF c = "pcm" THEN {1, 2} ELSE {num_streams}

LoopInit ==
    /\ LebIdle
    /\ FrameIdle
    /\ CodecIdle
    /\ LifeIdle
    /\ UseIdle
    /\ AmrIdle
    /\ MemIdle
    /\ ThrIdle
    /\ SampIdle
    /\ BufIdle
    /\ SubIdle
    /\ w_codec \in Codecs
    /\ \E n \in {1, 2} : w_dec = mux_decoder_init(n)
    /\ w_pc = "idle"
    /\ w_cap = 0
    /\ w_k = 0
    /\ w_calls = 0
    /\ w_last = NoCall

\* frame_buf = malloc(frame_buf_capacity); mux_buffer_write(&data->input_buf,
\* input, input_size); consumed = input_size
LoopEnter(input) ==
    /\ w_pc \in {"idle", "returned"}
    /\ w_calls < MaxCalls
    /\ w_dec' = [w_dec EXCEPT !.input_buf = mux_buffer_write(@, input)]
    /\ w_pc' = "loop"
    /\ w_cap' = FrameBufCapacity
    /\ w_k' = 1
    /\ w_calls' = w_calls + 1
    /\ w_last' = [op |-> "enter", unread |-> mux_buffer_available(w_dec.input_buf)]
    /\ UNCHANGED <<w_codec, not_loop_vars>>

\* the return statements of the loop and the break on MUX_ERROR_AGAIN
LoopReturn(ret, buf) ==
    /\ w_dec' = [w_dec EXCEPT !.input_buf = buf]
    /\ w_pc' = "returned"
    /\ w_last' = [op |-> "return", ret |-> ret,
                  unread |-> mux_buffer_available(w_dec.input_buf)]
    /\ UNCHANGED <<w_cap, w_k>>

\* a frame was read with calls calls of read_frame: it is routed and the
\* loop goes round
LoopStore(r, cap, calls) ==
    /\ w_dec' = StoreFrame(w_codec, w_dec, r)
    /\ w_pc' = "loop"
    /\ w_cap' = cap
    /\ w_k' = w_k + calls
    /\ w_last' = [op |-> "frame", calls |-> calls,
                  unread |-> mux_buffer_available(w_dec.input_buf)]

\* "Frame too large, reallocate buffer" and "Try again": r2 is what the
\* second read_frame returns
LoopRetry(r1, r2) ==
    IF r2.ret # MUX_OK
    THEN LoopReturn(r2.ret, r2.buf)
    ELSE LoopStore(r2, r1.payload_size, 2)

\* one iteration of while (1), r1 being what read_frame returns
LoopBody(r1, ns2, undef) ==
    IF r1.ret = MUX_ERROR_AGAIN
    THEN LoopReturn(MUX_OK, r1.buf)
    ELSE IF FrameSizeUndefined(w_k, r1) /\ undef = "realloc_fails"
    THEN LoopReturn(MUX_ERROR_NOMEM, r1.buf)
    ELSE IF r1.ret = MUX_ERROR_INVAL /\ r1.written /\ r1.payload_size > w_cap
    THEN \E r2 \in {mux_leb128_read_frame(r1.buf, r1.payload_size, ns2)} :
            LoopRetry(r1, r2)
    ELSE IF r1.ret # MUX_OK
    THEN LoopReturn(r1.ret, r1.buf)
    ELSE LoopStore(r1, w_cap, 1)

LoopIterate ==
    /\ w_pc = "loop"
    /\ \E ns \in LoopStreams(w_codec, w_dec.num_streams),
          ns2 \in LoopStreams(w_codec, w_dec.num_streams),
          undef \in FrameSizeOutcomes :
          \E r1 \in {mux_leb128_read_frame(w_dec.input_buf, w_cap, ns)} :
             LoopBody(r1, ns2, undef)
    /\ UNCHANGED <<w_codec, w_calls, not_loop_vars>>

LoopNext ==
    \/ \E input \in LoopInputs(w_codec, w_dec.num_streams) : LoopEnter(input)
    \/ LoopIterate

\* the thread that is inside the loop keeps running
SpecLoop == LoopInit /\ [][LoopNext]_vars /\ WF_vars(LoopIterate)

(***************************************************************************)
(* Reference definitions used by the properties                            *)
(***************************************************************************)
\* unsigned LEB128 of a natural number, by its base-128 digits
RECURSIVE Leb128Digits(_)
Leb128Digits(n) ==
    IF n < 128 THEN <<n>> ELSE <<128 + (n % 128)>> \o Leb128Digits(n \div 128)

\* the wire form of a frame in dual-stream mode
WireFrame(fr) ==
    Leb128Digits(Len(fr.payload) * 2 + fr.stream) \o fr.payload

\* the read_frame call just made, and the frame it was due to return
LastIsRead == f_last.op = "read_frame"
DueIndex == f_last.nread + 1
DueExists == DueIndex <= Len(f_written)
DueFrame == f_written[DueIndex]
DueComplete ==
    DueExists /\ Len(Unread(f_last.pre)) >= Len(WireFrame(DueFrame))

(***************************************************************************)
(* C8: for every 64-bit value v, encode(v) is at most 10 bytes and         *)
(* decode(encode(v)) succeeds with value v and bytes_read = length.        *)
(***************************************************************************)
C8_LebRoundTrip ==
    /\ leb_pc \in {"encoded", "decoded"} => leb_enc.ret \in 1..10
    /\ leb_pc = "decoded" =>
          /\ leb_dec.ret = MUX_OK
          /\ leb_dec.value = leb_value
          /\ leb_dec.bytes_read = leb_enc.ret

(***************************************************************************)
(* C6: in dual-stream mode write_frame appends exactly                     *)
(* LEB128(payload_length * 2 + stream_bit) followed by the payload.        *)
(***************************************************************************)
C6_WriteFrameLayout ==
    [][(f_num_streams = 2 /\ Len(f_written') = Len(f_written) + 1) =>
         LET fr == f_written'[Len(f_written')]
         IN /\ f_out'.data = SubSeq(f_out.data, 1, f_out.size)
                             \o Leb128Digits(Len(fr.payload) * 2 + fr.stream)
                             \o fr.payload
            /\ f_out'.size = Len(f_out'.data)
            /\ f_out'.read_pos = f_out.read_pos]_vars

C6_Witness ==
    /\ f_num_streams = 2
    /\ Len(f_written) = 2
    /\ f_written[1].payload = LongPayload
    /\ f_written[2].stream = MUX_STREAM_SIDE_CHANNEL
    /\ f_out.size = Len(WireFrame(f_written[1])) + Len(WireFrame(f_written[2]))

(***************************************************************************)
(* C3: in dual-stream mode the frames returned by read_frame are exactly   *)
(* the frames written, in order, whatever the split into chunks.           *)
(***************************************************************************)
C3_FrameRoundTrip ==
    f_num_streams = 2 =>
        /\ f_nread <= Len(f_written)
        /\ (LastIsRead /\ f_last.ret = MUX_OK) =>
              /\ DueExists
              /\ f_last.payload = DueFrame.payload
              /\ f_last.payload_size = Len(DueFrame.payload)
              /\ f_last.stream_type = DueFrame.stream
        /\ (LastIsRead /\ f_last.ret = MUX_ERROR_AGAIN
              /\ mux_buffer_available(f_out) = 0) =>
              f_nread = Len(f_written)

C3_Witness ==
    /\ f_num_streams = 2
    /\ f_nread = 2
    /\ LastIsRead /\ f_last.ret = MUX_OK
    /\ f_last.payload = LongPayload
    /\ f_last.pre.read_pos > 0

(***************************************************************************)
(* C9: in dual-stream mode, while the due frame is not completely          *)
(* buffered read_frame returns NeedMoreData and leaves the buffer          *)
(* untouched; once it is complete, one call returns the whole frame.       *)
(***************************************************************************)
C9_PartialFrameRetry ==
    (f_num_streams = 2 /\ LastIsRead) =>
        /\ ~DueComplete =>
              /\ f_last.ret = MUX_ERROR_AGAIN
              /\ f_in = f_last.pre
        /\ (DueComplete /\ f_last.capacity >= Len(DueFrame.payload)) =>
              /\ f_last.ret = MUX_OK
              /\ f_last.payload = DueFrame.payload
              /\ f_nread = f_last.nread + 1

\* only the first byte of a two-byte header is buffered
C9_Witness ==
    /\ f_num_streams = 2 /\ LastIsRead
    /\ f_last.ret = MUX_ERROR_AGAIN
    /\ DueExists /\ DueFrame.payload = LongPayload
    /\ Len(Unread(f_last.pre)) = 1

(***************************************************************************)
(* C10: in dual-stream mode, with a complete frame buffered and a          *)
(* capacity below its payload length, read_frame returns InvalidArgument,  *)
(* reports the payload length and stream bit, and leaves the buffer        *)
(* untouched; a retry with enough capacity returns that frame.             *)
(***************************************************************************)
C10_UndersizedOutput ==
    (f_num_streams = 2 /\ LastIsRead) =>
        /\ (DueComplete /\ f_last.capacity < Len(DueFrame.payload)) =>
              /\ f_last.ret = MUX_ERROR_INVAL
              /\ f_last.written
              /\ f_last.payload_size = Len(DueFrame.payload)
              /\ f_last.stream_type = DueFrame.stream
              /\ f_in = f_last.pre
        /\ (f_last.prev # NoCall /\ f_last.prev.written
              /\ f_last.capacity >= f_last.prev.payload_size) =>
              /\ f_last.ret = MUX_OK
              /\ f_last.payload_size = f_last.prev.payload_size
              /\ f_last.stream_type = f_last.prev.stream_type
              /\ f_last.payload = DueFrame.payload

C10_Witness ==
    /\ f_num_streams = 2 /\ LastIsRead
    /\ f_last.prev # NoCall
    /\ f_last.prev.ret = MUX_ERROR_INVAL
    /\ f_last.ret = MUX_OK
    /\ f_last.payload = LongPayload

(***************************************************************************)
(* Reference definitions for the codec-level properties                    *)
(***************************************************************************)
\* the bytes accepted by encoder_encode, in call order: those of one
\* stream, and all of them
RECURSIVE InputOf(_, _, _)
InputOf(log, stream_type, i) ==
    IF i > Len(log) THEN << >>
    ELSE (IF log[i].stream = stream_type THEN log[i].payload ELSE << >>)
         \o InputOf(log, stream_type, i + 1)

RECURSIVE InputAll(_, _)
InputAll(log, i) ==
    IF i > Len(log) THEN << >> ELSE log[i].payload \o InputAll(log, i + 1)

AudioIn == InputOf(encoded, MUX_STREAM_AUDIO, 1)
SideIn == InputOf(encoded, MUX_STREAM_SIDE_CHANNEL, 1)

\* every byte the encoder produced has been passed to decoder_decode
AllDelivered ==
    /\ encoded # << >>
    /\ mux_buffer_available(enc.output) = 0
    /\ wire = << >>

DualStream == enc.num_streams = 2 /\ dec.num_streams = 2
LastIsDecoderRead == last.op = "decoder_read"

\* everything the decoder has produced so far for a stream: what was read
\* plus what is still buffered
AudioProduced == out_audio \o Unread(dec.audio_output)
SideProduced == out_side \o Unread(dec.side_output)

(***************************************************************************)
(* C1: PCM encoder and decoder in dual-stream mode: the Audio-tagged reads *)
(* concatenate to the encoded audio payloads and the Side-tagged reads to  *)
(* the encoded side payloads; after encoding A then S and delivering all   *)
(* bytes, the first read (capacity >= |A|) returns A tagged Audio and the  *)
(* second returns S tagged Side.                                           *)
(***************************************************************************)
C1_PcmDualStream ==
    (codec = "pcm" /\ DualStream) =>
        /\ IsPrefix(out_audio, AudioIn)
        /\ IsPrefix(out_side, SideIn)
        /\ (AllDelivered /\ LastIsDecoderRead /\ last.ret = MUX_ERROR_AGAIN) =>
              (out_audio = AudioIn /\ out_side = SideIn)
        /\ (/\ AllDelivered /\ LastIsDecoderRead
            /\ Len(encoded) = 2
            /\ encoded[1].stream = MUX_STREAM_AUDIO
            /\ encoded[2].stream = MUX_STREAM_SIDE_CHANNEL) =>
              /\ (last.first /\ last.output_size >= Len(encoded[1].payload)) =>
                    /\ last.ret = MUX_OK
                    /\ last.stream_type = MUX_STREAM_AUDIO
                    /\ last.bytes = encoded[1].payload
              /\ (/\ ~last.first
                  /\ out_audio = encoded[1].payload
                  /\ last.pre_audio = << >>
                  /\ out_side = last.bytes
                  /\ last.output_size >= Len(encoded[2].payload)) =>
                    /\ last.ret = MUX_OK
                    /\ last.stream_type = MUX_STREAM_SIDE_CHANNEL
                    /\ last.bytes = encoded[2].payload

C4_ChunkingEquivalence ==
    fed # << >> =>
        \E args \in NumStreamsArgs(codec, dec.num_streams) :
            LET one == decoder_decode(codec, mux_decoder_init(dec.num_streams),
                                      fed, args, "not_larger").dec
            IN /\ AudioProduced = Unread(one.audio_output)
               /\ SideProduced = Unread(one.side_output)

(***************************************************************************)
(* C5: decoder_read serves the audio buffer first: whenever the audio      *)
(* buffer holds unread bytes the call returns audio bytes tagged Audio,    *)
(* and Side-tagged bytes are returned only when the audio buffer is empty. *)
(***************************************************************************)
C5_AudioBeforeSide ==
    LastIsDecoderRead =>
        /\ last.pre_audio # << >> =>
              /\ last.ret = MUX_OK
              /\ last.stream_type = MUX_STREAM_AUDIO
              /\ last.bytes = SubSeq(last.pre_audio, 1,
                                     Min(last.output_size, Len(last.pre_audio)))
              /\ Unread(dec.side_output) = last.pre_side
        /\ (last.ret = MUX_OK /\ last.stream_type = MUX_STREAM_SIDE_CHANNEL) =>
              /\ last.pre_audio = << >>
              /\ IsPrefix(last.bytes, last.pre_side)

C5_Witness ==
    /\ LastIsDecoderRead
    /\ last.pre_audio # << >>
    /\ last.pre_side # << >>
    /\ last.stream_type = MUX_STREAM_AUDIO
    /\ Len(last.bytes) < Len(last.pre_audio)

(***************************************************************************)
(* C7: a PCM encoder in passthrough mode emits exactly the bytes passed to *)
(* encoder_encode, in order, with no framing bytes; every chunk the        *)
(* decoder's read_frame returns is Audio, so nothing reaches the side      *)
(* output.                                                                 *)
(***************************************************************************)
C7_PcmPassthrough ==
    (codec = "pcm" /\ enc.num_streams = 1) =>
        /\ fed \o wire \o Unread(enc.output) = InputAll(encoded, 1)
        /\ dec.num_streams = 1 => SideProduced = << >>


(***************************************************************************)
(* Lifecycle claims (SpecLife)                                             *)
(***************************************************************************)
\* the blocks an instance owns: the instance itself when _new made it, its
\* buffers, its codec state block and what that block points to
OwnedBlocks ==
    LET i == l_inst.inst
    IN ({l_inst.self}
        \cup (IF l_inst.kind = "encoder" THEN {i.output}
              ELSE IF l_inst.kind = "decoder"
              THEN {i.audio_output, i.side_output}
              ELSE {})
        \cup (IF i.codec_data # NULL
              THEN {i.codec_data, i.data.native, i.data.input_buf}
              ELSE {})) \ {NULL}

LastIsLife(op) == l_last.op = op

TraceHas(ev) == \E k \in 1..Len(l_last.trace) : l_last.trace[k].ev = ev

\* every live block is owned by the instance and the reverse
HeapIsOwned == heap = OwnedBlocks

\* the operation table the last construction asked for, and whether it lacks
\* the init operation of the instance's kind (NULL table entries included)
RequestedOps == codec_ops_table(build, l_last.codec_type)

CodecOutOfRange ==
    l_last.codec_type < 0 \/ l_last.codec_type >= MUX_CODEC_MAX

InitOpMissing ==
    IF l_last.kind = "encoder" THEN ~HasOp(build, RequestedOps, "encoder_init")
    ELSE ~HasOp(build, RequestedOps, "decoder_init")

CodecUnavailable ==
    /\ l_last.op \in {"init", "new"}
    /\ CodecOutOfRange \/ InitOpMissing

\* the construction was refused as CodecUnavailable and left nothing behind
RefusedNoCodec ==
    /\ l_last.op = "init" => l_last.ret = MUX_ERROR_NOCODEC
    /\ l_last.op = "new" => l_inst = NoInstance
    /\ ~TraceHas("call") /\ ~TraceHas("nullcall")
    /\ heap = {}

\* C11 as stated: a construction that names a codec identifier out of range,
\* or a codec whose adapter or init operation is not compiled in, fails with
\* MUX_ERROR_NOCODEC (NULL from _new), calls nothing through the operation
\* table and leaves no allocation, whatever the other arguments are
C11_UnavailableAnyCount == CodecUnavailable => RefusedNoCodec

\* C11 amended: the same for a construction whose stream-count is 1 or 2 (an
\* invalid stream-count is refused first, with MUX_ERROR_INVAL), and no
\* operation of the facade ever calls through a NULL table entry
C11_Unavailable ==
    /\ CodecUnavailable /\ l_last.num_streams \in {1, 2} => RefusedNoCodec
    /\ l_last.op # "none" => ~TraceHas("nullcall")

\* a decoder or encoder was requested from an adapter that is compiled in
\* without that direction, with a valid stream-count
C11_Witness ==
    /\ CodecUnavailable /\ l_last.num_streams \in {1, 2}
    /\ l_last.op = "init"
    /\ RequestedOps = "mp3"
    /\ l_last.ret = MUX_ERROR_NOCODEC

\* C12: mux_encoder_init and mux_decoder_init refuse a stream-count other
\* than 1 or 2 with MUX_ERROR_INVAL before they allocate anything, call the
\* adapter or touch the instance (mux_encoder_new / mux_decoder_new have
\* allocated only the instance by then, and release it); and no step taken
\* on a constructed instance changes its stream-count
BadStreamCountRefused ==
    l_last.op \in {"init", "new"} /\ l_last.num_streams \notin {1, 2} =>
        /\ ~TraceHas("call") /\ ~TraceHas("nullcall")
        /\ heap = l_last.pre_heap
        /\ l_last.op = "init" =>
              /\ l_last.ret = MUX_ERROR_INVAL
              /\ l_last.trace = << >>
              /\ l_inst.inst = IF l_last.pre.storage = "none"
                               THEN (IF l_last.kind = "encoder"
                                     THEN ZeroEncoder ELSE ZeroDecoder)
                               ELSE l_last.pre.inst
        /\ l_last.op = "new" =>
              /\ l_inst = NoInstance
              /\ \/ l_last.ret = MUX_ERROR_NOMEM /\ l_last.trace = << >>
                 \/ /\ l_last.ret = MUX_ERROR_INVAL
                    /\ Len(l_last.trace) = 2
                    /\ l_last.trace[1].ev = "alloc"
                    /\ l_last.trace[2].ev = "free"
                    /\ l_last.trace[2].ptr = l_last.trace[1].ptr

StreamCountKept ==
    l_inst.live /\ l_inst'.live =>
        /\ l_inst'.inst.num_streams = l_inst.inst.num_streams
        /\ l_inst.inst.num_streams \in {1, 2}

C12_WitnessKept ==
    l_last.op = "use" /\ l_inst.live /\ l_inst.inst.num_streams = 2

FreedAt(k) == l_last.trace[k].ev = "free"
FreedBlocks == {l_last.trace[k].ptr : k \in {j \in 1..Len(l_last.trace) : FreedAt(j)}}
FreeCount == Cardinality({j \in 1..Len(l_last.trace) : FreedAt(j)})

\* the pointers a struct holds: its buffers, and its codec state block with
\* what that block points to
BuffersOf(x) ==
    (IF x.kind = "encoder" THEN {x.inst.output}
     ELSE IF x.kind = "decoder"
     THEN {x.inst.audio_output, x.inst.side_output}
     ELSE {}) \ {NULL}

StateOf(x) ==
    (IF x.inst.codec_data # NULL
     THEN {x.inst.codec_data, x.inst.data.native, x.inst.data.input_buf}
     ELSE {}) \ {NULL}

\* C13: a construction that fails, at whichever allocation, adapter init or
\* native open, returns with nothing allocated and with no pointer left in
\* the instance, and a deinit of that instance afterwards frees nothing
C13_FailedConstruction ==
    /\ l_last.op \in {"init", "new"} /\ l_last.ret # MUX_OK =>
          /\ heap = {}
          /\ BuffersOf(l_inst) = {} /\ StateOf(l_inst) = {}
          /\ ~TraceHas("badfree")
          /\ ~l_inst.live
    /\ l_last.op \in {"deinit", "destroy"} /\ ~l_last.pre.live =>
          /\ ~TraceHas("badfree")
          /\ FreedBlocks = {l_last.pre.self} \ {l_inst.self, NULL}
          /\ heap = {l_inst.self} \ {NULL}

\* the AMR decoder's native open failed after both output buffers, the state
\* block and its input buffer had been allocated
C13_Witness ==
    /\ l_last.op = "init" /\ l_last.kind = "decoder"
    /\ RequestedOps = "amr"
    /\ l_last.ret = MUX_ERROR_INIT
    /\ FreeCount = 4

\* C14: deinit of a constructed instance releases the adapter's state (the
\* native handle, the adapter's input buffer, the state block) and then the
\* instance's buffers, each block once, and leaves the instance zeroed; a
\* deinit of an instance that is not constructed (deinit was already called)
\* frees nothing and calls nothing
StateBeforeBuffers ==
    \A i, j \in 1..Len(l_last.trace) :
        /\ FreedAt(i) /\ l_last.trace[i].ptr \in StateOf(l_last.pre)
        /\ FreedAt(j) /\ l_last.trace[j].ptr \in BuffersOf(l_last.pre)
        => i < j

\* deinit zeroed the instance before the last call
AlreadyDeinit ==
    ~l_last.pre.live /\ l_last.pre.inst \in {ZeroEncoder, ZeroDecoder}

C14_Deinit ==
    /\ l_last.op = "deinit" /\ l_last.pre.live =>
          /\ ~TraceHas("badfree") /\ ~TraceHas("nullcall") /\ ~TraceHas("alloc")
          /\ FreedBlocks = BuffersOf(l_last.pre) \cup StateOf(l_last.pre)
          /\ FreeCount = Cardinality(FreedBlocks)
          /\ StateBeforeBuffers
          /\ heap = {l_inst.self} \ {NULL}
          /\ l_inst.inst \in {ZeroEncoder, ZeroDecoder}
    /\ l_last.op = "deinit" /\ AlreadyDeinit =>
          /\ l_last.trace = << >>
          /\ heap = l_last.pre_heap
          /\ l_inst.inst \in {ZeroEncoder, ZeroDecoder}

\* a second deinit of an AMR decoder that had been constructed with _new
C14_Witness ==
    /\ l_last.op = "deinit" /\ AlreadyDeinit
    /\ l_inst.storage = "dynamic" /\ l_inst.kind = "decoder"
    /\ "HAVE_AMR" \in build

\* the first deinit of a constructed MP3 decoder freed five blocks
C14_WitnessFirst ==
    /\ l_last.op = "deinit" /\ l_last.pre.live
    /\ l_last.pre.inst.ops = "mp3"
    /\ FreeCount = 5

(***************************************************************************)
(* Use claims (SpecUse)                                                    *)
(***************************************************************************)
UseOutputs(e, d) ==
    <<Unread(e.output), Unread(d.audio_output), Unread(d.side_output)>>

\* C15: an encode on a finalized encoder, or a decode on a finalized
\* decoder, returns MUX_ERROR_INVAL and leaves the output buffers as they
\* were
C15_AfterFinalize ==
    last.op \in {"encode", "decode"} /\ last.fin =>
        /\ last.ret = MUX_ERROR_INVAL
        /\ UseOutputs(enc, dec) = UseOutputs(last.pre_enc, last.pre_dec)

\* the unread input of the decoder before the last decode call, followed
\* by the bytes of that call
DecodeBacklog == Unread(last.pre_dec.input_buf) \o last.input

StartsMalformed(bytes) ==
    Len(bytes) >= 10 /\ \A i \in 1..10 : bytes[i] >= 128

\* C17: a decode call on a dual-stream decoder whose buffered input starts
\* with a header of ten continuation bytes returns MUX_ERROR_FORMAT
C17_MalformedHeader ==
    last.op = "decode" /\ dec.num_streams = 2 /\ StartsMalformed(DecodeBacklog)
        => last.ret = MUX_ERROR_FORMAT

\* C19: after a call that returned an error, the code of the instance's
\* error record is the code the call returned
IsFailure(ret) == ret < 0 /\ ret # MUX_ERROR_AGAIN

C19_ErrorRecorded ==
    last.op \in {"encode", "decode", "read", "finalize"} /\ IsFailure(last.ret)
        => u_err[last.who] = last.ret

(***************************************************************************)
(* AMR encoder claims (SpecAmr)                                            *)
(***************************************************************************)
AmrSuccessfulOp ==
    a_last'.op \in {"encode", "encode_side", "read", "finalize"}
        /\ a_last'.ret = MUX_OK

NativeOk == \A k \in 1..Len(a_native) : a_native[k].frame_size > 0

\* the k-th block of 160 samples of everything the audio calls carried
AmrChunk(k) ==
    SubSeq(a_stream, AMR_FRAME_SAMPLES * (k - 1) + 1, AMR_FRAME_SAMPLES * k)

AmrRemainder == Len(a_stream) % AMR_FRAME_SAMPLES

\* the samples after the last full block
AmrHeld == SubSeq(a_stream, Len(a_stream) - AmrRemainder + 1, Len(a_stream))

\* before finalize: one written native frame per full block, by encode, and
\* the remainder held in input_buf
EncodeFrames ==
    /\ Len(a_native) = Len(a_stream) \div AMR_FRAME_SAMPLES
    /\ \A k \in 1..Len(a_native) :
          a_native[k] = NativeCall("encode", AmrChunk(k),
                                   AMR_MAX_FRAME_SIZE, TRUE)
    /\ a_enc.data.input_samples = AmrRemainder
    /\ SubSeq(a_enc.data.input_buf, 1, AmrRemainder) = AmrHeld

\* the bytes the written frames of one call add to the output buffer
RECURSIVE EmittedBytes(_, _)
EmittedBytes(native, num_streams) ==
    IF native = << >>
    THEN << >>
    ELSE (IF native[1].written
          THEN Unread(mux_leb128_write_frame(mux_buffer_init(0),
                                             NativeFrame(native[1].input),
                                             MUX_STREAM_AUDIO,
                                             num_streams).buf)
          ELSE << >>)
         \o EmittedBytes(Tail(native), num_streams)

AmrPadded == AmrHeld \o Samples(AMR_FRAME_SAMPLES - AmrRemainder, 0)

\* the first finalize: one more frame, of the held samples followed by
\* zeros, exactly when samples are held
FinalizeFlush ==
    /\ a_last.native =
          IF AmrRemainder > 0
          THEN <<NativeCall("finalize", AmrPadded, AMR_MAX_FRAME_SIZE, TRUE)>>
          ELSE << >>
    /\ Len(a_native) - Len(a_last.native)
          = Len(a_stream) \div AMR_FRAME_SAMPLES
    /\ a_enc.data.input_samples = 0

\* C20: while the native encoder succeeds, the audio encode calls made
\* before finalize have emitted one frame per full block of 160 samples
\* they carried and hold the remainder; the first finalize emits one more
\* frame, the remainder padded with zeros, if and only if samples are held;
\* each call adds exactly its frames to the output buffer
C20_AmrFrames ==
    NativeOk =>
        /\ ~a_fin => EncodeFrames
        /\ a_last.op = "finalize" /\ ~a_last.fin => FinalizeFlush
        /\ a_last.op \in {"encode", "finalize"} =>
              Unread(a_enc.output) =
                  Unread(a_last.pre.output)
                      \o EmittedBytes(a_last.native, a_enc.num_streams)

\* 161 samples were carried, one frame came from encode and finalize has
\* just flushed the held sample
C20_Witness ==
    /\ NativeOk
    /\ a_last.op = "finalize"
    /\ ~a_last.fin
    /\ Len(a_stream) = AMR_FRAME_SAMPLES + 1
    /\ Len(a_native) = 2
    /\ a_native[2].by = "finalize"

\* 160 samples arrived as 1 + 159 over two calls and gave one frame
C20_WitnessSplit ==
    /\ NativeOk
    /\ ~a_fin
    /\ a_calls = 2
    /\ Len(a_stream) = AMR_FRAME_SAMPLES
    /\ Len(a_native) = 1

(***************************************************************************)
(* Allocation-failure claims (SpecMem)                                     *)
(***************************************************************************)
\* C16: a write in which a realloc failed returns MUX_ERROR_NOMEM and the
\* buffer is exactly what it was before the call
C16_GrowthFailure ==
    m_last.op \in {"write_frame", "buffer_write"} /\ m_last.failed =>
        /\ m_last.ret = MUX_ERROR_NOMEM
        /\ m_out = m_last.pre

(***************************************************************************)
(* Construction claims (SpecCtor)                                          *)
(***************************************************************************)
LastIsCtor == l_last.op \in {"init", "new"}

\* the sample rate the adapter of the last construction requires
RequiredRate ==
    IF l_last.codec_type = MUX_CODEC_AMR THEN AMR_SAMPLE_RATE
    ELSE AMR_WB_SAMPLE_RATE

\* an AMR-NB or AMR-WB encoder that is compiled in was requested with a
\* valid stream-count
AmrRequested ==
    /\ LastIsCtor
    /\ ~StreamCountInvalid(l_last.num_streams)
    /\ \/ l_last.codec_type = MUX_CODEC_AMR
       \/ l_last.codec_type = MUX_CODEC_AMR_WB
              /\ "HAVE_AMR_WB_ENCODE" \in build

FormatAccepted ==
    l_last.sample_rate = RequiredRate /\ l_last.num_channels = 1

\* the blocks the last construction added to the heap
NewBlocks == heap \ l_last.pre_heap

\* C21: an AMR-NB encoder is constructed only for 8000 Hz mono and an AMR-WB
\* encoder only for 16000 Hz mono (and then it is, when no allocation
\* fails); with any other format the construction fails with
\* MUX_ERROR_INVAL, the adapter records MUX_ERROR_INVAL in the instance, and
\* no block the construction allocated remains
C21_AmrFormat ==
    AmrRequested =>
        /\ l_last.ret = MUX_OK => FormatAccepted
        /\ FormatAccepted /\ l_last.fail_at = 0 => l_last.ret = MUX_OK
        /\ ~FormatAccepted /\ l_last.fail_at = 0 =>
              /\ l_last.ret = MUX_ERROR_INVAL
              /\ l_last.op = "init" => l_inst.inst.error = MUX_ERROR_INVAL
              /\ l_last.op = "init" =>
                    /\ l_inst.inst.codec_data = NULL
                    /\ l_inst.inst.output = NULL
              /\ l_last.op = "new" => l_inst = l_last.pre
              /\ NewBlocks = {}

\* an AMR-WB encoder asked for 16000 Hz stereo was refused
C21_Witness ==
    /\ AmrRequested
    /\ l_last.op = "init"
    /\ l_last.codec_type = MUX_CODEC_AMR_WB
    /\ l_last.sample_rate = AMR_WB_SAMPLE_RATE
    /\ l_last.num_channels = 2
    /\ l_last.ret = MUX_ERROR_INVAL
    /\ l_inst.inst.error = MUX_ERROR_INVAL

\* an AMR-NB encoder was constructed for 8000 Hz mono
C21_WitnessAccepted ==
    /\ AmrRequested
    /\ l_last.codec_type = MUX_CODEC_AMR
    /\ FormatAccepted
    /\ l_last.ret = MUX_OK
    /\ l_inst.live

\* C26: mux_encoder_init on an instance that is already initialised is
\* rejected: it returns an error, the instance keeps its configuration and
\* no block is added to or lost from the heap
C26_InitOnce ==
    l_last.op = "init" /\ l_last.pre.live =>
        /\ l_last.ret # MUX_OK
        /\ l_inst.inst = l_last.pre.inst
        /\ heap = l_last.pre_heap

\* the bytes the last encode call added to the output buffer
Queued ==
    SubSeq(Unread(enc.output), Len(Unread(last.pre_enc.output)) + 1,
           Len(Unread(enc.output)))

\* the last n bytes of a sequence
LastBytes(seq, n) == SubSeq(seq, Len(seq) - n + 1, Len(seq))

\* C22: a successful A-law / mu-law encode reports the input bytes it
\* consumed: all of them for side-channel input; for audio input twice the
\* number of whole samples, while one companded byte per whole sample is
\* queued; never more than input_size
C22_Consumed ==
    last.op = "encode" /\ last.ret = MUX_OK =>
        /\ last.consumed <= Len(last.input)
        /\ last.stream # MUX_STREAM_AUDIO => last.consumed = Len(last.input)
        /\ last.stream = MUX_STREAM_AUDIO =>
              /\ last.consumed = 2 * (Len(last.input) \div 2)
              /\ Len(Queued) = (Len(last.input) \div 2) + (enc.num_streams - 1)
              /\ LastBytes(Queued, Len(last.input) \div 2)
                    = CompandAll(codec, last.input, Len(last.input) \div 2)

\* an audio call of three bytes consumed two and queued one companded byte
C22_Witness ==
    /\ last.op = "encode"
    /\ last.ret = MUX_OK
    /\ last.stream = MUX_STREAM_AUDIO
    /\ Len(last.input) = 3
    /\ last.consumed = 2
    /\ enc.num_streams = 1
    /\ Len(Queued) = 1

\* C23: two instances share no mutable state: what a thread's construction
\* reads is what that thread wrote, so an MP3 construction initialises the
\* library exactly when its own thread has not done so, whatever the other
\* thread does
C23_Independent ==
    \A t \in Threads :
        t_codec[t] = "mp3" =>
            /\ t_pc[t] = "lib" => ~t_own[t]
            /\ t_pc[t] = "alloc" => t_own[t]

\* |n|
Abs(n) == IF n < 0 THEN 0 - n ELSE n

\* the magnitude the companders quantise: |x| clipped at 32635
Clipped(x) == IF Abs(x) > MULAW_CLIP THEN MULAW_CLIP ELSE Abs(x)

\* what the clipping takes off |x|
ClipMargin(x) == Abs(x) - Clipped(x)

\* the width of the quantisation interval of x's segment
QuantStep(c, x) ==
    IF c = "alaw"
    THEN IF Clipped(x) < 512 THEN 16
         ELSE 16 * Pow2(AlawSegment(Clipped(x)) - 1)
    ELSE 8 * Pow2(MulawSegment(Clipped(x) + MULAW_BIAS))

\* C24: for every 16-bit sample x, decode_sample(encode_sample(x)) has the
\* sign of x (or is 0) and differs from x by at most one quantisation step
\* of x's segment plus the clipping margin above 32635, x = -32768 included
C24_RoundTrip ==
    s_codec # "none" =>
        /\ s_back = 0 \/ (s_back < 0 <=> s_pcm < 0)
        /\ Abs(s_back - s_pcm) <= QuantStep(s_codec, s_pcm) + ClipMargin(s_pcm)

\* the same for every sample but -32768
C24_Others ==
    s_pcm # 0 - Pow2(15) => C24_RoundTrip

\* the 16-bit samples the encoder has consumed so far
RECURSIVE SamplesIn(_)
SamplesIn(calls) ==
    IF calls = << >> THEN 0
    ELSE (Len(Head(calls).payload) \div 2) + SamplesIn(Tail(calls))

\* the encoder was given audio only
AudioOnly == \A i \in 1..Len(encoded) : encoded[i].stream = MUX_STREAM_AUDIO

\* the wire bytes the encoder has produced: still queued, drained, passed on
WireBytes == Len(Unread(enc.output)) + Len(wire) + Len(fed)

\* the audio bytes the decoder has produced: read or still queued
DecodedBytes == Len(out_audio) + Len(Unread(dec.audio_output))

\* C25: in passthrough mode an A-law / mu-law round trip preserves the
\* sample count: n encoded samples are n wire bytes, and the wire bytes
\* passed to the decoder come out as two bytes of audio each, so that the
\* decoded size is the consumed input size once all bytes are passed on
C25_SampleCount ==
    codec \in {"alaw", "mulaw"} /\ enc.num_streams = 1 /\ AudioOnly =>
        /\ WireBytes = SamplesIn(encoded)
        /\ DecodedBytes = 2 * Len(fed)
        /\ Len(Unread(dec.input_buf)) = 0
        /\ out_side = << >> /\ Len(Unread(dec.side_output)) = 0
        /\ WireBytes = Len(fed) => DecodedBytes = 2 * SamplesIn(encoded)

\* two audio payloads went through
C25_Witness ==
    /\ codec = "alaw"
    /\ enc.num_streams = 1
    /\ AudioOnly
    /\ Len(encoded) = 2
    /\ SamplesIn(encoded) = 2
    /\ Len(fed) = 2
    /\ Len(out_audio) = 4

\* read_pos <= size <= capacity
Ordered(buf) == buf.read_pos <= buf.size /\ buf.size <= buf.capacity

\* C27: every buffer has read_pos <= size <= capacity after any sequence of
\* writes, reads, clears, frame reads in both modes and AMR passthrough
\* decodes
C27_Ordered == Ordered(b_buf) /\ Ordered(b_audio) /\ Len(b_buf.data) = b_buf.size

\* the AMR decoder took one frame out of the buffer and kept the start of
\* the next
C27_Witness ==
    /\ b_last.op = "amr_decode"
    /\ b_last.ret = MUX_OK
    /\ b_buf.read_pos > 0
    /\ b_buf.read_pos < b_buf.size
    /\ b_audio.size > 0

Drained ==
    /\ b_last.op \in {"read", "read_frame"}
    /\ b_last.ret = MUX_OK
    /\ Unread(b_last.pre) # << >>
    /\ Unread(b_buf) = << >>

\* the read collapsed the buffer
Collapsed ==
    /\ b_buf.read_pos = 0
    /\ b_buf.size = 0
    /\ b_buf.capacity = b_last.pre.capacity

\* the larger of two numbers
Larger(a, b) == IF a < b THEN b ELSE a

\* C29 as stated: a read that consumes the last unread byte collapses the
\* buffer, and the capacity stays within max(initial capacity, K), K being
\* the most bytes the buffer held in a round
C29_CapacityWithinK ==
    /\ Drained => Collapsed
    /\ b_buf.capacity <= Larger(b_init, b_peak)

\* C29, amended: a read that consumes the last unread byte collapses the
\* buffer, and the capacity stays within max(initial capacity, K + K/2)
C29_Collapse ==
    /\ Drained => Collapsed
    /\ b_buf.capacity <= Larger(b_init, b_peak + (b_peak \div 2))

\* a frame read drained a buffer that had grown
C29_Witness ==
    /\ Drained
    /\ b_last.op = "read_frame"
    /\ b_last.pre.read_pos > 0
    /\ b_buf.capacity > b_init

\* the last call was a write that did not fit
Overflowed ==
    /\ b_last.op \in {"write", "amr_decode"}
    /\ b_last.pre.size + b_last.size > b_last.pre.capacity

\* C30 as stated: the capacity never decreases, and a write that overflows
\* capacity c leaves a capacity of at least 1.5 * c and at least the size
\* needed
C30_GrowsByHalf ==
    /\ b_last.op # "none" => b_buf.capacity >= b_last.pre.capacity
    /\ Overflowed =>
          /\ 2 * b_buf.capacity >= 3 * b_last.pre.capacity
          /\ b_buf.capacity >= b_last.pre.size + b_last.size

\* C30, amended: the capacity never decreases, and a write that overflows
\* capacity c leaves a capacity of at least c + floor(c / 2) and at least
\* the size needed
C30_Grows ==
    /\ b_last.op # "none" => b_buf.capacity >= b_last.pre.capacity
    /\ Overflowed =>
          /\ b_buf.capacity >= b_last.pre.capacity + (b_last.pre.capacity \div 2)
          /\ b_buf.capacity >= b_last.pre.size + b_last.size

\* a write overflowed a buffer of odd capacity, and growth by half was more
\* than the size needed
C30_Witness ==
    /\ Overflowed
    /\ b_last.pre.capacity % 2 = 1
    /\ b_buf.capacity > b_last.pre.size + b_last.size

\* C31: mux_leb128_decode returns NeedMoreData, consuming nothing, for the
\* empty input and for every proper prefix of encode(v); it returns an
\* error other than NeedMoreData only for bytes that cannot be completed
\* to the encoding of a 64-bit value, so never for encode(v) itself
C31_DecodeErrors ==
    /\ leb_pc = "prefix" =>
          leb_dec.ret = MUX_ERROR_AGAIN /\ leb_dec.bytes_read = 0
    /\ leb_pc = "decoded" => leb_dec.ret \in {MUX_OK, MUX_ERROR_AGAIN}

\* the part of C31 about prefixes
C31_Prefixes ==
    leb_pc = "prefix" =>
        leb_dec.ret = MUX_ERROR_AGAIN /\ leb_dec.bytes_read = 0

\* a read_frame call in passthrough mode has returned MUX_OK
PassthroughRead ==
    f_num_streams = 1 /\ LastIsRead /\ f_last.ret = MUX_OK

RECURSIVE RefHeader(_, _)
RefHeader(bytes, k) ==
    IF k > Len(bytes) THEN [len |-> 0, value |-> 0]
    ELSE IF bytes[k] < 128 THEN [len |-> k, value |-> bytes[k]]
    ELSE LET h == RefHeader(bytes, k + 1)
         IN [len |-> h.len, value |-> (bytes[k] % 128) + 128 * h.value]

\* the audio payloads as the codec delivers them: expanded by the
\* companding codecs, copied by PCM
Delivered(payload) ==
    IF codec = "pcm" THEN payload ELSE ExpandAll(codec, payload)

\* the bytes split into their complete frames and what follows them: the
\* audio delivered, the side payloads, the rest
RECURSIVE RefFrames(_)
RefRouted(bytes, h, rest) ==
    IF h.value % 2 = 0
    THEN [audio |-> Delivered(SubSeq(bytes, h.len + 1, h.len + (h.value \div 2)))
                        \o rest.audio,
          side |-> rest.side, rest |-> rest.rest]
    ELSE [audio |-> rest.audio,
          side |-> SubSeq(bytes, h.len + 1, h.len + (h.value \div 2))
                       \o rest.side,
          rest |-> rest.rest]

RefSplit(bytes, h) ==
    IF h.len = 0 \/ Len(bytes) < h.len + (h.value \div 2)
    THEN [audio |-> << >>, side |-> << >>, rest |-> bytes]
    ELSE RefRouted(bytes, h,
                   RefFrames(SubSeq(bytes, h.len + (h.value \div 2) + 1,
                                    Len(bytes))))

RefFrames(bytes) == RefSplit(bytes, RefHeader(bytes, 1))

\* decoder_decode has returned MUX_OK in dual-stream mode
DecodedOk ==
    /\ last.op = "decoder_decode"
    /\ last.ret = MUX_OK
    /\ dec.num_streams = 2

\* what C33 asks of the decoder after such a call, f being the frames of
\* the bytes passed to it so far
Routed(f) ==
    /\ last.consumed = last.input_size
    /\ AudioProduced = f.audio
    /\ SideProduced = f.side
    /\ Unread(dec.input_buf) = f.rest

\* C33: after decoder_decode returns Ok in dual-stream mode it has reported
\* input_consumed = input_size, every complete frame of the accumulated
\* input has been routed (side payloads verbatim, audio payloads through
\* the codec) and the input buffer holds nothing or the start of one frame
C33_Routed == DecodedOk => Routed(RefFrames(fed))

\* the same for the A-law and mu-law adapters
C33_Companding ==
    codec \in {"alaw", "mulaw"} /\ DecodedOk => Routed(RefFrames(fed))

\* the last call was a facade operation on an instance that is all zero
LastIsFacade ==
    l_last.op \in FacadeOps("encoder") \cup FacadeOps("decoder")

\* C34: on an instance that is all zero (after deinit, or never
\* initialised) encode, decode, read and finalize return InvalidArgument,
\* call nothing through the operation table and touch no buffer; only init
\* (or new) makes an instance usable again
C34_Destroyed ==
    /\ LastIsFacade =>
          /\ l_last.ret = MUX_ERROR_INVAL
          /\ l_last.trace = << >>
          /\ heap = l_last.pre_heap
          /\ l_inst = l_last.pre
    /\ l_inst.live => l_last.op \in {"init", "new", "use"}
    /\ (l_inst.live /\ l_last.op = "use") => l_last.pre.live

\* finalize was refused on an encoder that had been constructed and
\* deinitialised
C34_Witness ==
    /\ l_last.op = "encoder_finalize"
    /\ l_last.ret = MUX_ERROR_INVAL
    /\ l_inst.storage = "static"
    /\ l_inst.kind = "encoder"
    /\ ~l_inst.live

\* decoder_decode has returned an error other than NeedMoreData
DecodeFailed ==
    /\ last.op = "decode"
    /\ last.ret \notin {MUX_OK, MUX_ERROR_AGAIN}

\* C35: when decoder_decode returns an error other than NeedMoreData the
\* decoder's input buffer and both output buffers are as they were before
\* the call
C35_FailedDecodeUnchanged ==
    DecodeFailed =>
        /\ dec.input_buf = last.pre_dec.input_buf
        /\ dec.audio_output = last.pre_dec.audio_output
        /\ dec.side_output = last.pre_dec.side_output

\* an audio call of the loop has returned MUX_OK
SubmittedAudio ==
    /\ p_last.op = "encode"
    /\ p_last.ret = MUX_OK
    /\ p_stream = MUX_STREAM_AUDIO

\* C36: whenever unconsumed bytes of an audio input remain, the next
\* encode call with them that returns Ok consumes at least one byte
C36_Progress == SubmittedAudio => p_last.consumed >= 1

\* the last call passed its input through uncompanded, in dual-stream mode
PassedThrough ==
    /\ p_last.op = "encode"
    /\ p_last.ret = MUX_OK
    /\ p_stream # MUX_STREAM_AUDIO
    /\ p_enc.num_streams = 2

\* the stream bit of the frame that call appended: the low bit of the
\* first header byte
WrittenStreamBit == p_enc.output.data[p_last.pre_size + 1] % 2

\* C39: an A-law or mu-law encoder in dual-stream mode writes every payload
\* it passes through uncompanded, whatever stream_type other than Audio it
\* was given, with stream bit 1
C39_SideBit == PassedThrough => WrittenStreamBit = 1

\* the bytes a decoder holds for its reader: all audio, then all side
Buffered == Unread(dec.audio_output) \o Unread(dec.side_output)

\* the last call was a decoder_read that returned NeedMoreData
Refused == last.op = "decoder_read" /\ last.ret = MUX_ERROR_AGAIN

\* one decoder_read with capacity >= 1: NeedMoreData exactly when nothing
\* was buffered, otherwise at least one byte, taken from the front of what
\* was buffered, which is shorter by those bytes afterwards
ReadStep ==
    last.op = "decoder_read" =>
        IF last.pre_audio \o last.pre_side = << >>
        THEN last.ret = MUX_ERROR_AGAIN /\ last.bytes = << >>
        ELSE /\ last.ret = MUX_OK
             /\ Len(last.bytes) >= 1
             /\ last.pre_audio \o last.pre_side = last.bytes \o Buffered
             /\ last.stream_type = IF last.pre_audio # << >>
                                   THEN MUX_STREAM_AUDIO
                                   ELSE MUX_STREAM_SIDE_CHANNEL

\* the last call was an encoder_read that returned NeedMoreData
EncoderRefused == last.op = "encoder_read" /\ last.ret = MUX_ERROR_AGAIN

\* the same for one encoder_read on the output buffer
EncoderReadStep ==
    last.op = "encoder_read" =>
        IF last.pre = << >>
        THEN last.ret = MUX_ERROR_AGAIN /\ last.bytes = << >>
        ELSE /\ last.ret = MUX_OK
             /\ Len(last.bytes) >= 1
             /\ last.pre = last.bytes \o Unread(enc.output)

\* C37: repeated decoder_read calls with capacity >= 1 return the buffered
\* bytes, all audio and then all side, and after finitely many calls
\* NeedMoreData; encoder_read does the same on the encoder's output buffer
C37_ReadsDrain ==
    /\ [](ReadStep /\ EncoderReadStep)
    /\ (Buffered # << >>) ~> Refused
    /\ (Unread(enc.output) # << >>) ~> EncoderRefused

\* a read of one byte at a time has reached the side bytes after the audio
C37_Witness ==
    /\ Refused
    /\ out_audio # << >>
    /\ out_side # << >>

\* C38: the frame loop of decoder_decode terminates: an iteration that does
\* not return leaves fewer unread bytes in the input buffer than it found
\* (also when it grew frame_buf and read the frame again), and a call that
\* has entered the loop returns
C38_LoopTerminates ==
    /\ [](w_last.op = "frame" =>
             mux_buffer_available(w_dec.input_buf) < w_last.unread)
    /\ (w_pc = "loop") ~> (w_pc = "returned")

\* the loop went round after growing frame_buf for an oversized frame
C38_Witness ==
    /\ w_last.op = "frame"
    /\ w_last.calls = 2
    /\ w_cap > FrameBufCapacity
    /\ w_pc = "loop"

\* C40: between calls the AMR-NB encoder retains fewer than 160 samples:
\* 0 <= input_samples < AMR_FRAME_SAMPLES after any encode and finalize
\* calls
C40_Retained == a_enc.data.input_samples \in 0..(AMR_FRAME_SAMPLES - 1)

=============================================================================
